---- MODULE Spec2Model ----
(***************************************************************************)
(* Outbox engine and batch execution coordinator of the workflow test      *)
(* bench: the outbox event model (wtb/domain/models/outbox.py), the        *)
(* relational outbox repository                                            *)
(* (wtb/infrastructure/database/repositories/outbox_repository.py), the    *)
(* outbox processor (wtb/infrastructure/outbox/processor.py) and the       *)
(* batch execution coordinator                                             *)
(* (wtb/application/services/batch_execution_coordinator.py).              *)
(***************************************************************************)
EXTENDS Integers, Sequences, FiniteSets, TLC

\* ------------------------------------------------------------------------
\* Bounds of the model
\* ------------------------------------------------------------------------
\* rows ever inserted into wtb_outbox (primary keys 1..MaxEvents)
MaxEvents == 2
\* max_retries given to every event (the dataclass default is 5)
MaxRetries == 2
\* batch_size handed to the processor (the constructor default is 50)
BatchSize == 2
\* largest value of the logical clock behind datetime.now()
MaxTime == 1
\* coordinator operations issued
MaxOps == 1
MaxRequests == 2
\* longest orphaned_paths list handed to cleanup_orphaned_files, and
\* largest max_files
MaxPaths == 2
\* checkpoints ever saved through the state adapter
MaxCheckpoints == 3
\* sessions ever created through the state adapter
MaxSessions == 3
\* add calls made by each thread on the in-memory repository
MaxAdds == 2

\* ------------------------------------------------------------------------
\* Program constants
\* ------------------------------------------------------------------------
\* limit passed to get_failed_for_retry by retry_failed_events
RetryLimit == 100
\* default limit of cleanup_old_events
CleanupLimit == 1000
\* default limit of list_all and of the in-memory get_pending
ListLimit == 100

None == 0 - 1

Threads == {"t1", "t2"}
SeqThreads == {"t1"}

\* OutboxEventType values that occur in the model
EventTypes ==
  {"checkpoint_create", "checkpoint_verify", "file_commit_verify",
   "file_batch_verify", "rollback_file_restore", "rollback_performed",
   "execution_forked", "checkpoint_file_link_verify"}

\* OutboxProcessor._handlers: the event types with a registered handler
Handlers ==
  {"checkpoint_create", "checkpoint_verify", "node_boundary_sync",
   "file_commit_link", "file_commit_verify", "file_blob_verify",
   "checkpoint_file_link_verify"}

Min(a, b) == IF a < b THEN a ELSE b

VARIABLES
  outbox,       \* committed rows of wtb_outbox: primary key -> row
  nextPk,       \* autoincrement counter of wtb_outbox
  now,          \* logical clock read by datetime.now()
  cpStore,      \* checkpoint ids present in the external checkpoint store
  running,      \* OutboxProcessor._running
  thr,          \* per thread: what it runs and where it is in _process_batch
  executions,   \* committed rows of the executions table
  coord,        \* the coordinator call in progress (its UoW included)
  fileTracking, \* whether the coordinator was given a file tracking service
  opCount,      \* coordinator operations issued so far
  invocations,  \* per event: times a typed handler was invoked
  completions,  \* per event: times a typed handler returned normally
  restoreLog,   \* who called file_tracking.restore_commit, with which commit
  script,       \* a caller's fixed sequence of processor calls, and its place
  batch,        \* the batch_operate call in progress
  checkpointRepo,  \* whether the processor was given a checkpoint repository
  checkpointFiles, \* checkpoint_files links of the WTB database
  fileCommits,  \* file commits present, with their blobs, in the file store
  disk,         \* the files of the workspace and of the backup directory
  cleanup,      \* the cleanup_orphaned_files call in progress
  orphans,      \* the identify_orphaned_files call and the checkpoint's files
  gc,           \* the last cleanup_old_events call and what it returned
  retried,      \* what the last retry_failed_events call returned
  issue,        \* the last IntegrityIssue built for a stuck outbox event
  adapter,      \* the fields of the shared AgentGitStateAdapter instance
  stateDb,      \* sessions and checkpoints of AgentGit, node_boundaries of WTB
  mock,         \* the fields of one MockOutboxRepository
  adders,       \* per thread: its place in MockOutboxRepository.add
  result        \* what the last call returned, from either repository

vars == <<outbox, nextPk, now, cpStore, running, thr, executions, coord,
          fileTracking, opCount, invocations, completions, restoreLog,
          script, batch, checkpointRepo, checkpointFiles, fileCommits,
          disk, cleanup, orphans, gc, retried, issue, adapter, stateDb,
          mock, adders, result>>

\* ------------------------------------------------------------------------
\* OutboxEvent (wtb/domain/models/outbox.py)
\* ------------------------------------------------------------------------
\* OutboxEvent(...) with the dataclass defaults; op is the coordinator
\* operation that created it (0: another producer); requested_key is no
\* field of the class: it keeps the idempotency_key the event was created with
NewEvent(type, agg, cp, commit, op, t) ==
  [pk |-> None, event_type |-> type, aggregate_id |-> agg,
   checkpoint_id |-> cp, commit_id |-> commit, op |-> op,
   idempotency_key |-> "none", requested_key |-> "none",
   status |-> "pending", retry_count |-> 0, max_retries |-> MaxRetries,
   created_at |-> t, processed_at |-> None, last_error |-> "none"]

\* OutboxEvent.create(..., idempotency_key=key)
create(type, agg, cp, key, t) ==
  [NewEvent(type, agg, cp, None, 0, t) EXCEPT !.idempotency_key = key,
                                              !.requested_key = key]

can_retry(e) ==
  /\ e.status \in {"pending", "failed"}
  /\ e.retry_count < e.max_retries

mark_processing(e) == [e EXCEPT !.status = "processing"]

mark_processed_NoTimestamp(e, t) == [e EXCEPT !.status = "processed"]

mark_processed(e, t) == [e EXCEPT !.status = "processed", !.processed_at = t]

mark_failed_NoIncrement(e, error) ==
  [e EXCEPT !.status = "failed", !.last_error = error]

mark_failed(e, error) ==
  [e EXCEPT !.status = "failed",
            !.retry_count = e.retry_count + 1,
            !.last_error = error]

reset_for_retry(e) ==
  [e EXCEPT !.status = "pending", !.retry_count = 0, !.last_error = "none"]

\* ------------------------------------------------------------------------
\* SQLAlchemyOutboxRepository
\* ------------------------------------------------------------------------
\* every ordering of the rows S by created_at ascending (ties in any order)
OrderedByCreatedAt(ob, S) ==
  {s \in [1..Cardinality(S) -> S] :
     /\ \A i, j \in 1..Cardinality(S) : i # j => s[i] # s[j]
     /\ \A i, j \in 1..Cardinality(S) :
          i < j => ob[s[i]].created_at <= ob[s[j]].created_at}

Limit(s, n) == SubSeq(s, 1, Min(n, Len(s)))

ToDomain(ob, s) == [i \in 1..Len(s) |-> ob[s[i]]]

get_pending_AnyStatus(ob, limit) ==
  {ToDomain(ob, Limit(s, limit)) : s \in OrderedByCreatedAt(ob, DOMAIN ob)}

get_pending(ob, limit) ==
  {ToDomain(ob, Limit(s, limit)) :
     s \in OrderedByCreatedAt(ob,
             {k \in DOMAIN ob : ob[k].status = "pending"})}

get_failed_for_retry(ob, limit) ==
  {ToDomain(ob, Limit(s, limit)) :
     s \in OrderedByCreatedAt(ob,
             {k \in DOMAIN ob : /\ ob[k].status = "failed"
                                /\ ob[k].retry_count < ob[k].max_retries})}

\* update raises ValueError when no row has the event's primary key
UpdateRaises(ob, e) == e.pk \notin DOMAIN ob

update(ob, e) ==
  [ob EXCEPT ![e.pk] = [@ EXCEPT !.status = e.status,
                                 !.retry_count = e.retry_count,
                                 !.processed_at = e.processed_at,
                                 !.last_error = e.last_error]]

\* _to_orm: the columns the repository writes; idempotency_key is not
\* among them
_to_orm(e) == [e EXCEPT !.idempotency_key = "none"]

\* add: the row gets the next primary key
add(ob, e, pk) == (pk :> [_to_orm(e) EXCEPT !.pk = pk]) @@ ob

\* a delete that ignores its limit
delete_processed_NoLimit(ob, before, limit) ==
  {{k \in DOMAIN ob : /\ ob[k].status = "processed"
                      /\ ob[k].processed_at # None
                      /\ ob[k].processed_at < before}}

\* the sets of rows delete_processed(before, limit) may remove
delete_processed(ob, before, limit) ==
  LET eligible == {k \in DOMAIN ob : /\ ob[k].status = "processed"
                                     /\ ob[k].processed_at # None
                                     /\ ob[k].processed_at < before}
  IN {D \in SUBSET eligible :
        Cardinality(D) = Min(limit, Cardinality(eligible))}

Remove(ob, D) == [k \in (DOMAIN ob) \ D |-> ob[k]]
\* ------------------------------------------------------------------------
\* OutboxProcessor: handlers
\* ------------------------------------------------------------------------
\* uow.checkpoint_files.find_by_checkpoint(checkpoint_id): the commit id of
\* the link of the checkpoint, None when there is no link
find_by_checkpoint(links, cp) ==
  IF cp \in DOMAIN links THEN links[cp] ELSE None

\* what the handler of e raises ("none": it returns normally).  repo: the
\* processor was built with a checkpoint repository, whose checkpoints are
\* store; links: the checkpoint_files table.  The file store is no
\* parameter: no handler reads it.
HandlerError(e, repo, store, links) ==
  CASE e.event_type = "checkpoint_create" ->
         IF e.checkpoint_id = None THEN "none"
         ELSE IF repo /\ e.checkpoint_id \notin store
                THEN "checkpoint_not_found"
         ELSE "none"
    [] e.event_type = "checkpoint_verify" ->
         IF e.checkpoint_id = None THEN "missing_checkpoint_id"
         ELSE IF repo /\ e.checkpoint_id \notin store
                THEN "checkpoint_not_found"
         ELSE "none"
    [] e.event_type = "checkpoint_file_link_verify" ->
         IF e.checkpoint_id # None /\ repo /\ e.checkpoint_id \notin store
           THEN "checkpoint_not_found"
         ELSE IF find_by_checkpoint(links, e.checkpoint_id) = None
                THEN "link_not_found"
         ELSE IF find_by_checkpoint(links, e.checkpoint_id) # e.commit_id
                THEN "commit_mismatch"
         ELSE "none"
    [] OTHER -> "none"

\* ------------------------------------------------------------------------
\* OutboxProcessor: threads
\* ------------------------------------------------------------------------
\* mode: "none" (no such thread), "loop" (the thread of start()), "once" (a
\* caller inside process_once); raised: the last _process_batch of the
\* thread was left by an exception
IdleThread ==
  [mode |-> "none", pc |-> "idle", batch |-> <<>>, idx |-> 0,
   err |-> "none", raised |-> FALSE]

Current(t) == thr[t].batch[thr[t].idx]

\* _process_batch returns or raises: a loop thread goes back to the head
\* of _run_loop (which logs what was raised), a process_once caller is gone
EndBatch(r, raised) ==
  IF r.mode = "loop"
    THEN [IdleThread EXCEPT !.mode = "loop", !.raised = raised]
    ELSE [IdleThread EXCEPT !.raised = raised]

\* the for loop moves to the next event of the batch
NextEvent(r) ==
  IF r.idx < Len(r.batch)
    THEN [r EXCEPT !.idx = r.idx + 1, !.pc = "claim", !.err = "none"]
    ELSE EndBatch(r, FALSE)

\* with SQLAlchemyUnitOfWork ... get_pending(limit=batch_size), entered by
\* thread r whose mode is already set
FetchBatch(r, ob) ==
  {IF s = <<>>
     THEN EndBatch(r, FALSE)
     ELSE [r EXCEPT !.pc = "claim", !.batch = s, !.idx = 1,
                    !.err = "none", !.raised = FALSE] :
   s \in get_pending(ob, BatchSize)}

UnchangedGhosts == UNCHANGED <<invocations, completions, restoreLog>>
\* the state adapter is used by the execution controller only
UnchangedAdapter == UNCHANGED <<adapter, stateDb>>
\* the in-memory repository belongs to the tests
UnchangedMock == UNCHANGED <<mock, adders, result>>
UnchangedExtra == UnchangedAdapter /\ UnchangedMock
\* the stores the handlers verify against are written by their owners
UnchangedStores == UNCHANGED <<checkpointRepo, checkpointFiles, fileCommits>>
\* the file cleanup service is called by neither processor nor coordinator
UnchangedFiles == UNCHANGED <<disk, cleanup, orphans>>
UnchangedCoord ==
  /\ UNCHANGED <<executions, coord, fileTracking, opCount, batch>>
  /\ UnchangedStores
  /\ UnchangedFiles
UnchangedScript ==
  /\ UNCHANGED <<script, gc, retried, issue>>
  /\ UnchangedExtra
UnchangedEnv == UNCHANGED <<now, cpStore>>

\* start()
Start(t) ==
  /\ ~running
  /\ thr[t].mode = "none"
  /\ running' = TRUE
  /\ thr' = [thr EXCEPT ![t] = [IdleThread EXCEPT !.mode = "loop"]]
  /\ UNCHANGED <<outbox, nextPk>>
  /\ UnchangedGhosts /\ UnchangedCoord /\ UnchangedEnv /\ UnchangedScript

\* stop(timeout): the flag is cleared; the join changes no state
Stop ==
  /\ running
  /\ running' = FALSE
  /\ UNCHANGED <<outbox, nextPk, thr>>
  /\ UnchangedGhosts /\ UnchangedCoord /\ UnchangedEnv /\ UnchangedScript

\* _run_loop: the while test, then the head of _process_batch
LoopIter(t) ==
  /\ thr[t].mode = "loop"
  /\ thr[t].pc = "idle"
  /\ IF running
       THEN \E r \in FetchBatch(thr[t], outbox) :
              thr' = [thr EXCEPT ![t] = r]
       ELSE thr' = [thr EXCEPT ![t] = IdleThread]
  /\ UNCHANGED <<outbox, nextPk, running>>
  /\ UnchangedGhosts /\ UnchangedCoord /\ UnchangedEnv /\ UnchangedScript

\* process_once(): a caller enters _process_batch; with nothing pending it
\* returns 0 at once
process_once(t) ==
  /\ thr[t].mode = "none"
  /\ \E r \in FetchBatch([thr[t] EXCEPT !.mode = "once"], outbox) :
       /\ r.pc = "claim"
       /\ thr' = [thr EXCEPT ![t] = r]
  /\ UNCHANGED <<outbox, nextPk, running>>
  /\ UnchangedGhosts /\ UnchangedCoord /\ UnchangedEnv

ProcessOnce(t) == process_once(t) /\ UnchangedScript

\* event.mark_processing(); uow.outbox.update(event); uow.commit()
\* If the row is gone update raises, the except clause's update raises
\* again and the exception leaves _process_batch.
Claim(t) ==
  /\ thr[t].pc = "claim"
  /\ LET e == mark_processing(Current(t)) IN
       IF UpdateRaises(outbox, e)
         THEN /\ thr' = [thr EXCEPT ![t] = EndBatch(thr[t], TRUE)]
              /\ UNCHANGED outbox
         ELSE /\ outbox' = update(outbox, e)
              /\ thr' = [thr EXCEPT ![t].batch[thr[t].idx] = e,
                                    ![t].pc = "handle"]
  /\ UNCHANGED <<nextPk, running>>
  /\ UnchangedGhosts /\ UnchangedCoord /\ UnchangedEnv /\ UnchangedScript

\* handler = self._handlers.get(event.event_type); handler(event) or raise
\* (the invocation counter stops one above max_retries)
Handle(t) ==
  /\ thr[t].pc = "handle"
  /\ LET e == Current(t) IN
       IF e.event_type \notin Handlers
         THEN /\ thr' = [thr EXCEPT ![t].pc = "fail",
                                    ![t].err = "no_handler"]
              /\ UNCHANGED <<invocations, completions>>
         ELSE /\ invocations[e.pk] <= e.max_retries
              /\ invocations' = [invocations EXCEPT ![e.pk] = @ + 1]
              /\ IF HandlerError(e, checkpointRepo, cpStore,
                                 checkpointFiles) = "none"
                   THEN /\ completions' = [completions EXCEPT ![e.pk] = @ + 1]
                        /\ thr' = [thr EXCEPT ![t].pc = "finish"]
                   ELSE /\ thr' = [thr EXCEPT
                                     ![t].pc = "fail",
                                     ![t].err =
                                       HandlerError(e, checkpointRepo,
                                                    cpStore,
                                                    checkpointFiles)]
                        /\ UNCHANGED completions
  /\ UNCHANGED <<outbox, nextPk, running, restoreLog>>
  /\ UnchangedCoord /\ UnchangedEnv /\ UnchangedScript

\* event.mark_processed(); uow.outbox.update(event); uow.commit();
\* processed += 1.  The write may raise (a missing row, or a database
\* fault): control passes to the except clause with the event object
\* already marked.
Finish(t) ==
  /\ thr[t].pc = "finish"
  /\ LET e == mark_processed(Current(t), now) IN
       \/ /\ ~UpdateRaises(outbox, e)
          /\ outbox' = update(outbox, e)
          /\ thr' = [thr EXCEPT
                       ![t] = NextEvent([thr[t] EXCEPT
                                           !.batch[thr[t].idx] = e])]
       \/ /\ thr' = [thr EXCEPT ![t].batch[thr[t].idx] = e,
                                ![t].pc = "fail",
                                ![t].err = "db_error"]
          /\ UNCHANGED outbox
  /\ UNCHANGED <<nextPk, running>>
  /\ UnchangedGhosts /\ UnchangedCoord /\ UnchangedEnv /\ UnchangedScript

\* an except clause that records the failure and re-raises
Fail_Reraises(t) ==
  /\ thr[t].pc = "fail"
  /\ LET e == mark_failed(Current(t), thr[t].err) IN
       /\ ~UpdateRaises(outbox, e)
       /\ outbox' = update(outbox, e)
       /\ thr' = [thr EXCEPT ![t] = EndBatch(thr[t], TRUE)]
  /\ UNCHANGED <<nextPk, running>>
  /\ UnchangedGhosts /\ UnchangedCoord /\ UnchangedEnv /\ UnchangedScript

\* except Exception as e: event.mark_failed(str(e));
\* uow.outbox.update(event); uow.commit()
Fail(t) ==
  /\ thr[t].pc = "fail"
  /\ LET e == mark_failed(Current(t), thr[t].err) IN
       IF UpdateRaises(outbox, e)
         THEN /\ thr' = [thr EXCEPT ![t] = EndBatch(thr[t], TRUE)]
              /\ UNCHANGED outbox
         ELSE /\ outbox' = update(outbox, e)
              /\ thr' = [thr EXCEPT
                           ![t] = NextEvent([thr[t] EXCEPT
                                               !.batch[thr[t].idx] = e])]
  /\ UNCHANGED <<nextPk, running>>
  /\ UnchangedGhosts /\ UnchangedCoord /\ UnchangedEnv /\ UnchangedScript

\* the process hosting the processor dies while a worker is between the
\* claim commit and the final status write; a new process has a new
\* OutboxProcessor (__init__: _running = False, no thread)
Crash ==
  /\ \E t \in Threads : thr[t].pc \in {"handle", "finish", "fail"}
  /\ running' = FALSE
  /\ thr' = [t \in Threads |-> IdleThread]
  /\ UNCHANGED <<outbox, nextPk>>
  /\ UnchangedGhosts /\ UnchangedCoord /\ UnchangedEnv /\ UnchangedScript

\* ------------------------------------------------------------------------
\* IntegrityIssue (wtb/domain/models/integrity.py)
\* ------------------------------------------------------------------------
\* no issue built yet; event is no field of the class: it keeps the outbox
\* row the issue was built for
NoIssue ==
  [issue_type |-> "none", severity |-> "none", source_table |-> "none",
   source_id |-> None, suggested_action |-> "none",
   auto_repairable |-> FALSE, event |-> None]

\* IntegrityIssue.outbox_stuck(event_id, event_type, retry_count,
\* can_retry, message)
outbox_stuck(event_id, retry_count, retryable) ==
  [issue_type |-> "outbox_stuck",
   severity |-> IF ~retryable THEN "critical" ELSE "warning",
   source_table |-> "wtb_outbox",
   source_id |-> event_id,
   suggested_action |-> IF retryable THEN "retry_outbox"
                                     ELSE "manual_required",
   auto_repairable |-> retryable,
   event |-> None]

\* the integrity check finds an event left in PROCESSING by a worker that
\* is gone and builds its issue, retryability taken from can_retry()
CheckStuck ==
  /\ \A t \in Threads : thr[t].mode = "none"
  /\ \E k \in DOMAIN outbox :
       /\ outbox[k].status = "processing"
       /\ issue' = [outbox_stuck(k, outbox[k].retry_count,
                                 can_retry(outbox[k]))
                     EXCEPT !.event = outbox[k]]
  /\ UNCHANGED <<outbox, nextPk, running, thr, script, gc, retried>>
  /\ UnchangedExtra
  /\ UnchangedGhosts /\ UnchangedCoord /\ UnchangedEnv

\* the events of the list s that pass `if event.can_retry()`
Retryable(s) == {s[j].pk : j \in {i \in 1..Len(s) : can_retry(s[i])}}

\* a loop body that resets the event as reset_for_retry does
ResetFailed_ClearsCount(ob, s) ==
  [k \in DOMAIN ob |->
     IF k \in Retryable(s) THEN reset_for_retry(ob[k]) ELSE ob[k]]

\* event.status = OutboxStatus.PENDING; uow.outbox.update(event), for the
\* events of s that can be retried
ResetFailed(ob, s) ==
  [k \in DOMAIN ob |->
     IF k \in Retryable(s)
       THEN [ob[k] EXCEPT !.status = "pending"]
       ELSE ob[k]]

\* retry_failed_events() that finds something to reset
retry_failed_events ==
  /\ \E s \in get_failed_for_retry(outbox, RetryLimit) :
       /\ s # <<>>
       /\ outbox' = ResetFailed(outbox, s)
  /\ UNCHANGED <<nextPk, running, thr>>
  /\ UnchangedGhosts /\ UnchangedCoord /\ UnchangedEnv

\* retry_failed_events() with its return value recorded
RetryCall ==
  /\ \E s \in get_failed_for_retry(outbox, RetryLimit) :
       /\ outbox' = ResetFailed(outbox, s)
       /\ retried' = Cardinality(Retryable(s))
  /\ UNCHANGED <<nextPk, running, thr, script, gc, issue>>
  /\ UnchangedExtra
  /\ UnchangedGhosts /\ UnchangedCoord /\ UnchangedEnv

RetryFailedEvents == retry_failed_events /\ UnchangedScript

\* a manual retry: an operator reads a FAILED event, calls
\* event.reset_for_retry() and writes it back with update
ResetForRetry ==
  /\ \E k \in DOMAIN outbox :
       /\ outbox[k].status = "failed"
       /\ outbox' = update(outbox, reset_for_retry(outbox[k]))
  /\ UNCHANGED <<nextPk, running, thr>>
  /\ UnchangedGhosts /\ UnchangedCoord /\ UnchangedEnv /\ UnchangedScript

\* no cleanup_old_events call yet
NoGc == [before |-> 0, limit |-> 0, deleted |-> 0]

\* cleanup_old_events(days_old, limit) with its arguments and its return
\* value recorded; the delete may raise a database error, which leaves
\* the call (deleted: None) with nothing deleted
cleanup_old_events ==
  /\ \E days_old \in 0..1, limit \in {1, CleanupLimit} :
       LET before == now - days_old
           call == [NoGc EXCEPT !.before = before, !.limit = limit]
       IN \/ \E D \in delete_processed(outbox, before, limit) :
               /\ outbox' = Remove(outbox, D)
               /\ gc' = [call EXCEPT !.deleted = Cardinality(D)]
          \/ /\ UNCHANGED outbox
             /\ gc' = [call EXCEPT !.deleted = None]
  /\ UNCHANGED <<nextPk, running, thr, script, retried, issue>>
  /\ UnchangedExtra
  /\ UnchangedGhosts /\ UnchangedCoord /\ UnchangedEnv

\* cleanup_old_events(days_old, limit) that deletes something
CleanupOldEvents ==
  /\ \E days_old \in 0..1, limit \in {1, CleanupLimit} :
       \E D \in delete_processed(outbox, now - days_old, limit) :
         /\ D # {}
         /\ outbox' = Remove(outbox, D)
  /\ UNCHANGED <<nextPk, running, thr>>
  /\ UnchangedGhosts /\ UnchangedCoord /\ UnchangedEnv /\ UnchangedScript

\* ------------------------------------------------------------------------
\* Environment
\* ------------------------------------------------------------------------
\* time passes
Tick ==
  /\ now < MaxTime
  /\ now' = now + 1
  /\ UNCHANGED <<outbox, nextPk, running, thr, cpStore>>
  /\ UnchangedGhosts /\ UnchangedCoord /\ UnchangedScript

\* the checkpoint store gets checkpoint 1
SaveCheckpoint ==
  /\ 1 \notin cpStore
  /\ cpStore' = cpStore \cup {1}
  /\ UNCHANGED <<outbox, nextPk, running, thr, now>>
  /\ UnchangedGhosts /\ UnchangedCoord /\ UnchangedScript

\* another producer commits a UoW that adds one verification event
ProducerEvents == {<<"checkpoint_verify", 1>>}

add_event ==
  /\ nextPk <= MaxEvents
  /\ \E p \in ProducerEvents :
       outbox' = add(outbox, NewEvent(p[1], 1, p[2], None, 0, now), nextPk)
  /\ nextPk' = nextPk + 1
  /\ UNCHANGED <<running, thr>>
  /\ UnchangedGhosts /\ UnchangedCoord /\ UnchangedEnv

AddEvent == add_event /\ UnchangedScript

\* the verification events of the producers: CHECKPOINT_CREATE and
\* CHECKPOINT_VERIFY with or without a checkpoint_id in the payload,
\* OutboxEvent.create_checkpoint_file_link_verify(execution, 1, commit)
VerifyEvents ==
  ({"checkpoint_create", "checkpoint_verify"} \X {1, None} \X {None})
    \cup ({"checkpoint_file_link_verify"} \X {1} \X {1, 2})

AddVerifyEvent ==
  /\ nextPk <= MaxEvents
  /\ \E p \in VerifyEvents :
       outbox' = add(outbox, NewEvent(p[1], 1, p[2], p[3], 0, now), nextPk)
  /\ nextPk' = nextPk + 1
  /\ UNCHANGED <<running, thr>>
  /\ UnchangedGhosts /\ UnchangedCoord /\ UnchangedEnv /\ UnchangedScript

\* ------------------------------------------------------------------------
\* A caller that makes a fixed sequence of calls, one after the other
\* ------------------------------------------------------------------------
Calls == {"process_once", "retry_failed_events"}

\* insert one event, drain twice, retry_failed_events, drain once more
RetryScenario ==
  <<"add", "process_once", "process_once", "retry_failed_events",
    "process_once">>

\* an insert followed by as many calls as the retry scenario has, in
\* every order
Scripts == {<<"add">> \o c : c \in [1..(Len(RetryScenario) - 1) -> Calls]}

\* the caller's next call is c; its previous call has returned
ScriptHead(c) ==
  /\ script.pos <= Len(script.calls)
  /\ script.calls[script.pos] = c
  /\ \A t \in SeqThreads : thr[t].mode = "none"

Advance ==
  /\ script' = [script EXCEPT !.pos = @ + 1]
  /\ UNCHANGED <<gc, retried, issue>>
  /\ UnchangedExtra

\* a call that finds nothing to do
NoEffect ==
  /\ UNCHANGED <<outbox, nextPk, running, thr>>
  /\ UnchangedGhosts /\ UnchangedCoord /\ UnchangedEnv

ScriptAdd ==
  /\ ScriptHead("add")
  /\ add_event
  /\ Advance

ScriptProcessOnce(t) ==
  /\ ScriptHead("process_once")
  /\ \/ process_once(t)
     \/ get_pending(outbox, BatchSize) = {<<>>} /\ NoEffect
  /\ Advance

ScriptRetry ==
  /\ ScriptHead("retry_failed_events")
  /\ \/ retry_failed_events
     \/ get_failed_for_retry(outbox, RetryLimit) = {<<>>} /\ NoEffect
  /\ Advance

\* a producer commits a UoW that adds one event of a type the processor has
\* no handler for (OutboxEvent.create_file_batch_verify)
AddUnhandledEvent ==
  /\ nextPk <= MaxEvents
  /\ outbox' = add(outbox,
                   NewEvent("file_batch_verify", 1, None, None, 0, now),
                   nextPk)
  /\ nextPk' = nextPk + 1
  /\ UNCHANGED <<running, thr>>
  /\ UnchangedGhosts /\ UnchangedCoord /\ UnchangedEnv /\ UnchangedScript

\* the idempotency keys clients supply
IdempotencyKeys == {"k1", "k2"}

\* a client commits a UoW that adds one verification event created with an
\* idempotency key; the checkpoint it refers to is checkpoint 1
AddKeyedEvent ==
  /\ nextPk <= MaxEvents
  /\ \E key \in IdempotencyKeys :
       outbox' = add(outbox, create("checkpoint_verify", 1, 1, key, now),
                     nextPk)
  /\ nextPk' = nextPk + 1
  /\ UNCHANGED <<running, thr>>
  /\ UnchangedGhosts /\ UnchangedCoord /\ UnchangedEnv /\ UnchangedScript

\* ------------------------------------------------------------------------
\* Checkpoints and the execution controller
\* ------------------------------------------------------------------------
\* workflow_variables of the state stored with each checkpoint: ftr is
\* _file_tracking_result.commit_id, fcid is file_commit_id
CheckpointState ==
  [c \in {"c1", "c2", "c3"} |->
     CASE c = "c1" -> [ftr |-> None, fcid |-> 1]
       [] c = "c2" -> [ftr |-> None, fcid |-> None]
       [] c = "c3" -> [ftr |-> 2, fcid |-> 1]]

Checkpoints == DOMAIN CheckpointState

\* the id the controller gives the execution forked by operation n
ForkId(n) == n + 1

\* controller.rollback: the execution is PAUSED with the checkpoint's state
ControllerRollback(ex, e, c) ==
  [ex EXCEPT ![e] = [status |-> "paused", cp |-> c,
                     vars |-> CheckpointState[c]]]

\* controller.fork: a fresh PENDING execution with the checkpoint's state
ControllerFork(ex, new, c) ==
  (new :> [status |-> "pending", cp |-> c, vars |-> CheckpointState[c]]) @@ ex

\* controller.run: the execution ends in one of the states a run can reach
ControllerRun(ex, e, final) == [ex EXCEPT ![e].status = final]

RunOutcomes == {"completed", "paused"}

\* ------------------------------------------------------------------------
\* Unit of work of the coordinator
\* ------------------------------------------------------------------------
\* uow.commit(): the outbox after the events added in the UoW are inserted
RECURSIVE UowInsert(_, _, _)
UowInsert(ob, evs, pk) ==
  IF evs = <<>> THEN ob
  ELSE UowInsert(add(ob, Head(evs), pk), Tail(evs), pk + 1)

\* ------------------------------------------------------------------------
\* BatchExecutionCoordinator
\* ------------------------------------------------------------------------
\* uowExec and uowOut are the uncommitted writes of the call's UoW;
\* preExec is the executions table as the call found it; uow tells whether
\* the call created a UoW and how that ended, called whether it invoked the
\* controller, restore how its post-commit file restore went
IdleCoord ==
  [pc |-> "idle", op |-> "none", id |-> 0, exec |-> 0, cp |-> "none",
   graph |-> FALSE, target |-> 0, fcid |-> None,
   uow |-> "none", called |-> FALSE, restore |-> "none",
   uowExec |-> <<>>, uowOut |-> <<>>, preExec |-> <<>>]

Operations == {"rollback", "fork", "rollback_and_run", "fork_and_run"}

IsRollback(op) == op \in {"rollback", "rollback_and_run"}
IsRun(op) == op \in {"rollback_and_run", "fork_and_run"}

_extract_file_commit_id(x) ==
  IF x.vars.ftr # None THEN x.vars.ftr
  ELSE IF x.vars.fcid # None THEN x.vars.fcid
  ELSE None

\* the events rollback adds to its UoW
RollbackEvents(c, ft, t) ==
  <<NewEvent("rollback_performed", c.exec, None, c.fcid, c.id, t)>>
  \o (IF c.fcid # None /\ ft
        THEN <<NewEvent("rollback_file_restore", c.exec, None, c.fcid,
                        c.id, t)>>
        ELSE <<>>)

\* the fork event filed under the source execution
OperationEvents_SourceAggregate(c, ft, t) ==
  CASE c.op = "rollback" -> RollbackEvents(c, ft, t)
    [] c.op = "rollback_and_run" ->
         <<NewEvent("rollback_performed", c.exec, None, c.fcid, c.id, t)>>
    [] OTHER ->
         <<NewEvent("execution_forked", c.exec, None, None, c.id, t)>>

\* the events each operation adds to its UoW
OperationEvents(c, ft, t) ==
  CASE c.op = "rollback" -> RollbackEvents(c, ft, t)
    [] c.op = "rollback_and_run" ->
         <<NewEvent("rollback_performed", c.exec, None, c.fcid, c.id, t)>>
    [] OTHER ->
         <<NewEvent("execution_forked", c.target, None, None, c.id, t)>>

\* the call after controller.rollback(...) / controller.fork(...) and
\* _extract_file_commit_id
AfterController(c) ==
  IF IsRollback(c.op)
    THEN LET ex == ControllerRollback(c.uowExec, c.exec, c.cp)
         IN [c EXCEPT !.uowExec = ex, !.target = c.exec,
                      !.fcid = _extract_file_commit_id(ex[c.exec])]
    ELSE [c EXCEPT !.uowExec = ControllerFork(c.uowExec, ForkId(c.id), c.cp),
                   !.target = ForkId(c.id)]

\* the call after controller.run(...) of the *_and_run operations
AfterRun(c, final) ==
  IF IsRun(c.op)
    THEN [c EXCEPT !.uowExec = ControllerRun(c.uowExec, c.target, final)]
    ELSE c

\* the call after its uow.outbox.add(...) calls
AfterAdd(c, ft, t) == [c EXCEPT !.uowOut = OperationEvents(c, ft, t)]

\* the try block up to uow.commit(): the steps write to the UoW only; the
\* first of them that raises ("none": none does) ends the block
Phase1(c, raisesAt, final, ft, t) ==
  CASE raisesAt = "controller" -> [c EXCEPT !.pc = "except"]
    [] raisesAt = "run" -> [AfterController(c) EXCEPT !.pc = "except"]
    [] raisesAt = "add" ->
         [AfterRun(AfterController(c), final) EXCEPT !.pc = "except"]
    [] OTHER ->
         [AfterAdd(AfterRun(AfterController(c), final), ft, t)
            EXCEPT !.pc = "commit"]

UnchangedProc ==
  /\ UNCHANGED <<running, thr, now, cpStore, invocations, completions,
                 script, gc, retried, issue>>
  /\ UnchangedExtra
  /\ UnchangedStores
  /\ UnchangedFiles

\* rollback / fork / rollback_and_run / fork_and_run on execution 1.
\* Without a graph the *_and_run operations raise ValueError before any
\* UoW; otherwise the call creates its UoW and a controller and runs its
\* try block up to uow.commit().
CoordInvoke_NoGraphCheck(op, c, graph) ==
  /\ coord.pc = "idle"
  /\ LET call == [IdleCoord EXCEPT !.op = op, !.id = opCount + 1,
                                   !.exec = 1, !.cp = c, !.graph = graph,
                                   !.preExec = executions]
     IN \E raisesAt \in {"none", "controller", "run", "add"},
           final \in RunOutcomes :
          /\ raisesAt = "run" => IsRun(op)
          /\ ~IsRun(op) => final = "completed"
          /\ coord' = Phase1([call EXCEPT !.uow = "open",
                                          !.called = TRUE,
                                          !.uowExec = executions],
                             raisesAt, final, fileTracking, now)
  /\ opCount' = opCount + 1
  /\ UNCHANGED <<outbox, nextPk, executions, fileTracking, restoreLog>>
  /\ UnchangedProc

CoordInvoke(op, c, graph) ==
  /\ coord.pc = "idle"
  /\ LET call == [IdleCoord EXCEPT !.op = op, !.id = opCount + 1,
                                   !.exec = 1, !.cp = c, !.graph = graph,
                                   !.preExec = executions]
     IN IF IsRun(op) /\ ~graph
          THEN coord' = [call EXCEPT !.pc = "raised"]
          ELSE \E raisesAt \in {"none", "controller", "run", "add"},
                  final \in RunOutcomes :
                 /\ raisesAt = "run" => IsRun(op)
                 /\ ~IsRun(op) => final = "completed"
                 /\ coord' = Phase1([call EXCEPT !.uow = "open",
                                                 !.called = TRUE,
                                                 !.uowExec = executions],
                                    raisesAt, final, fileTracking, now)
  /\ opCount' = opCount + 1
  /\ UNCHANGED <<outbox, nextPk, executions, fileTracking, restoreLog>>
  /\ UnchangedProc

\* the requests a caller may make: the graph argument matters to the
\* *_and_run operations only
Requests ==
  {r \in [op : Operations, cp : Checkpoints, graph : BOOLEAN] :
     IsRun(r.op) \/ r.graph}

\* a caller invokes one of the four operations directly
CoordCall ==
  /\ batch.pc = "idle"
  /\ opCount < MaxOps
  /\ nextPk + 1 <= MaxEvents
  /\ \E r \in Requests : CoordInvoke(r.op, r.cp, r.graph)
  /\ UNCHANGED batch

\* uow.commit(): the state change and the events become visible together,
\* or the commit raises
CoordCommit ==
  /\ coord.pc = "commit"
  /\ \/ /\ coord' = [coord EXCEPT !.pc = "except"]
        /\ UNCHANGED <<outbox, nextPk, executions>>
     \/ /\ executions' = coord.uowExec
        /\ outbox' = UowInsert(outbox, coord.uowOut, nextPk)
        /\ nextPk' = nextPk + Len(coord.uowOut)
        /\ coord' = [coord EXCEPT
                       !.uow = "committed",
                       !.pc = IF coord.op = "rollback_and_run"
                                THEN "post" ELSE "done"]
  /\ UNCHANGED <<fileTracking, opCount, restoreLog>>
  /\ UNCHANGED batch
  /\ UnchangedProc

\* except Exception: uow.rollback(); raise
CoordExcept_Commits ==
  /\ coord.pc = "except"
  /\ executions' = coord.uowExec
  /\ outbox' = UowInsert(outbox, coord.uowOut, nextPk)
  /\ nextPk' = nextPk + Len(coord.uowOut)
  /\ coord' = [coord EXCEPT !.pc = "raised"]
  /\ UNCHANGED <<fileTracking, opCount, restoreLog>>
  /\ UNCHANGED batch
  /\ UnchangedProc

CoordExcept ==
  /\ coord.pc = "except"
  /\ coord' = [coord EXCEPT !.pc = "raised", !.uow = "rolled_back",
                            !.uowExec = <<>>, !.uowOut = <<>>]
  /\ UNCHANGED <<outbox, nextPk, executions, fileTracking, opCount,
                 restoreLog>>
  /\ UNCHANGED batch
  /\ UnchangedProc

\* how _restore_files_post_commit ends: nothing to restore or no file
\* tracking service; the service is not available; restore_commit returns;
\* restore_commit raises
RestoreOutcomes(c, ft) ==
  IF c.fcid = None \/ ~ft THEN {"skipped"}
  ELSE {"unavailable", "restored", "failed"}

\* a failed restore that is raised to the caller
CoordPostCommit_Raises ==
  /\ coord.pc = "post"
  /\ \E r \in RestoreOutcomes(coord, fileTracking) :
       /\ restoreLog' = IF r \in {"restored", "failed"}
                          THEN restoreLog \cup {<<"coordinator", coord.fcid>>}
                          ELSE restoreLog
       /\ coord' = [coord EXCEPT !.restore = r,
                                 !.pc = IF r = "failed"
                                          THEN "raised" ELSE "done"]
  /\ UNCHANGED <<outbox, nextPk, executions, fileTracking, opCount>>
  /\ UNCHANGED batch
  /\ UnchangedProc

\* _restore_files_post_commit of rollback_and_run: restore_commit is called
\* when a commit id was extracted and the file tracking service is there
\* and available; what it raises is logged and dropped
CoordPostCommit ==
  /\ coord.pc = "post"
  /\ \E r \in RestoreOutcomes(coord, fileTracking) :
       /\ restoreLog' = IF r \in {"restored", "failed"}
                          THEN restoreLog \cup {<<"coordinator", coord.fcid>>}
                          ELSE restoreLog
       /\ coord' = [coord EXCEPT !.restore = r, !.pc = "done"]
  /\ UNCHANGED <<outbox, nextPk, executions, fileTracking, opCount>>
  /\ UNCHANGED batch
  /\ UnchangedProc

\* the call returns to (or has raised into) its caller
CoordReturn ==
  /\ batch.pc = "idle"
  /\ coord.pc \in {"done", "raised"}
  /\ coord' = IdleCoord
  /\ UNCHANGED <<outbox, nextPk, executions, fileTracking, opCount,
                 restoreLog>>
  /\ UNCHANGED batch
  /\ UnchangedProc

\* ------------------------------------------------------------------------
\* Specifications
\* ------------------------------------------------------------------------
\* no scripted caller
NoScript == [calls |-> <<>>, pos |-> 1]

\* ------------------------------------------------------------------------
\* batch_operate
\* ------------------------------------------------------------------------
\* no batch_operate call. In a call, n is len(requests), requests the
\* requests the for loop has taken so far, results the list it builds and
\* base the number of coordinator operations made before the call
IdleBatch ==
  [pc |-> "idle", n |-> 0, requests |-> <<>>, results |-> <<>>,
   stop_on_error |-> FALSE, base |-> 0]

\* the for loop goes on with the next request or, after the last, returns
LoopPc(b) == IF Len(b.requests) = b.n THEN "returned" ELSE "loop"

\* BatchOperationResult(...) of a request; id is the coordinator call made
\* for it (0: none) and uow how that call's UoW ended, neither is a field
\* of the class
Result(r, success, new, id, uow) ==
  [op |-> r.op, cp |-> r.cp, success |-> success, new_execution_id |-> new,
   id |-> id, uow |-> uow]

\* results.append(...), and in the except branch `if stop_on_error: break`
Collect_StopsAlways(b, res) ==
  [b EXCEPT !.results = Append(b.results, res),
            !.pc = IF ~res.success THEN "returned" ELSE LoopPc(b)]

Collect_NeverStops(b, res) ==
  [b EXCEPT !.results = Append(b.results, res), !.pc = LoopPc(b)]

Collect(b, res) ==
  [b EXCEPT !.results = Append(b.results, res),
            !.pc = IF ~res.success /\ b.stop_on_error
                     THEN "returned" ELSE LoopPc(b)]

\* the requests of a batch: to a checkpoint with and to one without a file
\* commit
BatchRequests == {r \in Requests : r.cp \in {"c1", "c2"}}

\* a caller invokes batch_operate(requests, stop_on_error)
batch_operate ==
  /\ batch.pc = "idle"
  /\ coord.pc = "idle"
  /\ opCount < MaxOps
  /\ \E n \in 0..MaxRequests, stop \in BOOLEAN :
       LET b == [IdleBatch EXCEPT !.n = n, !.stop_on_error = stop,
                                  !.base = opCount]
       IN batch' = [b EXCEPT !.pc = LoopPc(b)]
  /\ UNCHANGED <<outbox, nextPk, executions, coord, fileTracking, opCount,
                 restoreLog>>
  /\ UnchangedProc

\* the next request is a *_and_run without graph: ValueError is raised in
\* the try block before the coordinator operation is called
BatchReject ==
  /\ batch.pc = "loop"
  /\ \E r \in BatchRequests :
       /\ IsRun(r.op) /\ ~r.graph
       /\ batch' = Collect([batch EXCEPT
                              !.requests = Append(batch.requests, r)],
                           Result(r, FALSE, 0, 0, "none"))
  /\ UNCHANGED <<outbox, nextPk, executions, coord, fileTracking, opCount,
                 restoreLog>>
  /\ UnchangedProc

\* the next request is passed to rollback / fork / rollback_and_run /
\* fork_and_run
BatchDispatch ==
  /\ batch.pc = "loop"
  /\ \E r \in BatchRequests :
       /\ ~IsRun(r.op) \/ r.graph
       /\ CoordInvoke(r.op, r.cp, r.graph)
       /\ batch' = [batch EXCEPT !.requests = Append(batch.requests, r),
                                 !.pc = "call"]

\* the operation has returned an execution or raised into the except
\* branch
BatchCollect ==
  /\ batch.pc = "call"
  /\ coord.pc \in {"done", "raised"}
  /\ LET r == batch.requests[Len(batch.requests)]
         res == IF coord.pc = "done"
                  THEN Result(r, TRUE,
                              IF IsRollback(r.op) THEN 0 ELSE coord.target,
                              coord.id, coord.uow)
                  ELSE Result(r, FALSE, 0, coord.id, coord.uow)
     IN batch' = Collect(batch, res)
  /\ coord' = IdleCoord
  /\ UNCHANGED <<outbox, nextPk, executions, fileTracking, opCount,
                 restoreLog>>
  /\ UnchangedProc

\* return results
BatchReturn ==
  /\ batch.pc = "returned"
  /\ batch' = IdleBatch
  /\ UNCHANGED <<outbox, nextPk, executions, coord, fileTracking, opCount,
                 restoreLog>>
  /\ UnchangedProc

BatchOperate ==
  \/ batch_operate
  \/ BatchReject
  \/ BatchDispatch
  \/ BatchCollect
  \/ BatchReturn

\* ------------------------------------------------------------------------
\* FileCleanupService (wtb/infrastructure/file_tracking/cleanup_service.py)
\* ------------------------------------------------------------------------
\* the files a workspace may hold, as paths relative to the workspace root,
\* component by component: a.py, data/b.json, .git/c.py
WorkspaceFiles ==
  {<<"a", ".py">>, <<"data", "/", "b", ".json">>, <<".git", "/", "c", ".py">>}

\* a path string: absolute (below the workspace root) or relative to it
PathOf(abs, parts) == [abs |-> abs, parts |-> parts]

RECURSIVE basename(_)
basename(parts) ==
  IF \E i \in 1..Len(parts) : parts[i] = "/"
    THEN basename(Tail(parts))
    ELSE parts

\* _normalize_path: a relative path is joined to the workspace root
_normalize_path(q) == PathOf(TRUE, q.parts)

\* what identify_orphaned_files returns: normalized absolute paths
OrphanedPaths == {PathOf(TRUE, f) : f \in WorkspaceFiles}

\* the lists of at most n paths of S
RECURSIVE PathLists(_, _)
PathLists(S, n) ==
  IF n = 0 THEN {<<>>}
  ELSE PathLists(S, n - 1)
       \cup {Append(l, q) : l \in {m \in PathLists(S, n - 1) : Len(m) = n - 1},
                            q \in S}

\* files: the workspace files present; backup_dir: whether the backup
\* directory exists; backups: the copies in it, each named by the number
\* of its copy (the timestamp) and the basename of the file it copies
EmptyDisk == [files |-> {}, backup_dir |-> FALSE, backups |-> {}]

\* os.path.exists(file_path)
exists(d, q) == q.parts \in d.files

\* shutil.copy2(file_path, backup_dir / f"{timestamp}_{filename}")
copy2(d, q) ==
  [d EXCEPT !.backups = @ \cup {[n |-> Cardinality(d.backups) + 1,
                                 name |-> basename(q.parts),
                                 of |-> q.parts]}]

\* os.remove(file_path)
remove(d, q) == [d EXCEPT !.files = @ \ {q.parts}]

\* no cleanup_orphaned_files call. In a call, idx is the place of the for
\* loop in orphaned_paths; before is the disk as the call found it and
\* faults the paths on which a file operation of the call raised
IdleCleanup ==
  [pc |-> "idle", orphaned_paths |-> <<>>, backup_dir |-> FALSE,
   dry_run |-> FALSE, max_files |-> 0, idx |-> 0,
   files_deleted |-> 0, files_backed_up |-> 0, files_skipped |-> 0,
   deleted_paths |-> <<>>, backed_up_paths |-> <<>>, skipped_paths |-> <<>>,
   errors |-> <<>>, before |-> EmptyDisk, faults |-> {}]

\* an entry of errors: the refusal names the cap, a path error its path
ErrorMsg(kind, paths, max) == [kind |-> kind, paths |-> paths, max |-> max]

\* FileCleanupResult.success
success(c) == Len(c.errors) = 0

\* the safety check
ExceedsCap_Never(paths, max_files, dry_run) == FALSE

ExceedsCap_DryRunToo(paths, max_files, dry_run) == Len(paths) > max_files

ExceedsCap(paths, max_files, dry_run) ==
  Len(paths) > max_files /\ ~dry_run

\* an except clause that records the error and drops the path
OnError_NoSkip(c, q, kind) ==
  [c EXCEPT !.idx = @ + 1,
            !.errors = Append(@, ErrorMsg(kind, <<q>>, None))]

\* except PermissionError / except OSError: the error and the path are
\* recorded and the loop goes on
OnError(c, q, kind) ==
  [c EXCEPT !.idx = @ + 1,
            !.errors = Append(@, ErrorMsg(kind, <<q>>, None)),
            !.skipped_paths = Append(@, q)]

\* the call: the safety check, then backup_dir.mkdir(parents=True,
\* exist_ok=True), which raises when the directory cannot be made
cleanup_orphaned_files ==
  /\ cleanup.pc = "idle"
  /\ \E paths \in PathLists(OrphanedPaths, MaxPaths),
        backup \in BOOLEAN, dry_run \in BOOLEAN, max_files \in 0..MaxPaths :
       LET call == [IdleCleanup EXCEPT !.orphaned_paths = paths,
                                       !.backup_dir = backup,
                                       !.dry_run = dry_run,
                                       !.max_files = max_files,
                                       !.before = disk]
       IN IF ExceedsCap(paths, max_files, dry_run)
            THEN /\ cleanup' = [call EXCEPT
                                  !.pc = "returned",
                                  !.files_skipped = Len(paths),
                                  !.skipped_paths = paths,
                                  !.errors = <<ErrorMsg("refused", paths,
                                                        max_files)>>]
                 /\ UNCHANGED disk
            ELSE IF backup /\ ~dry_run
              THEN \/ /\ disk' = [disk EXCEPT !.backup_dir = TRUE]
                      /\ cleanup' = [call EXCEPT !.pc = "loop", !.idx = 1]
                   \/ /\ ~disk.backup_dir
                      /\ cleanup' = [call EXCEPT !.pc = "raised"]
                      /\ UNCHANGED disk
              ELSE /\ cleanup' = [call EXCEPT !.pc = "loop", !.idx = 1]
                   /\ UNCHANGED disk
  /\ UNCHANGED orphans

\* the outcomes of the live branch for one existing file:
\* _backup_file returns the backup path or, when the copy raises, None;
\* os.remove succeeds or raises PermissionError or another OSError
LiveOutcomes(c) ==
  {o \in [backup : {"none", "copied", "failed"},
          remove : {"removed", "permission", "os"}] :
     o.backup = "none" <=> ~c.backup_dir}

\* one iteration of `for file_path in orphaned_paths`
CleanupPath ==
  /\ cleanup.pc = "loop"
  /\ cleanup.idx <= Len(cleanup.orphaned_paths)
  /\ LET q == cleanup.orphaned_paths[cleanup.idx]
         next == [cleanup EXCEPT !.idx = @ + 1]
     IN IF ~exists(disk, q)
          THEN /\ cleanup' = [next EXCEPT !.skipped_paths = Append(@, q)]
               /\ UNCHANGED disk
          ELSE IF cleanup.dry_run
            THEN /\ cleanup' =
                      [next EXCEPT
                         !.backed_up_paths = IF cleanup.backup_dir
                                               THEN Append(@, q) ELSE @,
                         !.deleted_paths = Append(@, q)]
                 /\ UNCHANGED disk
            ELSE \E o \in LiveOutcomes(cleanup) :
                   LET copied == IF o.backup = "copied"
                                   THEN copy2(disk, q) ELSE disk
                       backed ==
                         [cleanup EXCEPT
                            !.backed_up_paths =
                               IF o.backup = "copied" THEN Append(@, q) ELSE @,
                            !.faults =
                               IF o.backup = "failed" \/ o.remove # "removed"
                                 THEN @ \cup {q} ELSE @]
                   IN IF o.remove = "removed"
                        THEN /\ disk' = remove(copied, q)
                             /\ cleanup' =
                                  [backed EXCEPT
                                     !.idx = @ + 1,
                                     !.deleted_paths = Append(@, q)]
                        ELSE /\ disk' = copied
                             /\ cleanup' = OnError(backed, q, o.remove)
  /\ UNCHANGED orphans

\* result = FileCleanupResult(...); return result
CleanupReturn ==
  /\ cleanup.pc = "loop"
  /\ cleanup.idx > Len(cleanup.orphaned_paths)
  /\ cleanup' = [cleanup EXCEPT
                   !.pc = "returned",
                   !.files_deleted = Len(cleanup.deleted_paths),
                   !.files_backed_up = Len(cleanup.backed_up_paths),
                   !.files_skipped = Len(cleanup.skipped_paths)]
  /\ UNCHANGED <<disk, orphans>>

\* fnmatch.fnmatch(path, pattern) component by component: "*" matches any
\* run of components, the separator included
RECURSIVE fnmatch(_, _)
fnmatch(path, pattern) ==
  IF pattern = <<>> THEN path = <<>>
  ELSE IF Head(pattern) = "*"
    THEN \/ fnmatch(path, Tail(pattern))
         \/ path # <<>> /\ fnmatch(Tail(path), pattern)
    ELSE /\ path # <<>>
         /\ Head(path) = Head(pattern)
         /\ fnmatch(Tail(path), Tail(pattern))

\* the glob patterns callers pass: *.py, data/*, *.json
TrackPatterns == {<<"*", ".py">>, <<"data", "/", "*">>}
ExcludePatterns == {<<"*", ".json">>}

\* _matches_patterns: the relative path or the file name matches a pattern
_matches_patterns(path, patterns) ==
  \E pattern \in patterns :
    fnmatch(path, pattern) \/ fnmatch(basename(path), pattern)

\* d.startswith('.') for a directory d of the path: os.walk does not
\* descend into it
InHiddenDir(parts) ==
  \E i \in 1..Len(parts) :
    /\ i = 1 \/ parts[i - 1] = "/"
    /\ \E j \in (i + 1)..Len(parts) : parts[j] = "/"
    /\ parts[i] \in {".git"}

\* _discover_files: nothing without track patterns; the paths it returns
\* are joined to workspace_path, absolute or not as that is
_discover_files(files, abs, track_patterns, exclude_patterns) ==
  IF track_patterns = {} THEN {}
  ELSE {PathOf(abs, f) :
          f \in {g \in files : /\ ~InHiddenDir(g)
                               /\ _matches_patterns(g, track_patterns)
                               /\ ~_matches_patterns(g, exclude_patterns)}}

\* the set difference taken without normalizing the paths
Orphaned_Unnormalized(checkpoint_files, current_files) ==
  current_files \ checkpoint_files

\* orphaned = current - checkpoint, compared as normalized paths
Orphaned(checkpoint_files, current_files) ==
  {_normalize_path(q) : q \in current_files}
    \ {_normalize_path(q) : q \in checkpoint_files}

\* no checkpoint tracked, no identify_orphaned_files call. at_checkpoint
\* is what get_files_at_checkpoint returns, tracked_with the patterns the
\* checkpoint was tracked with, modified whether the workspace was written
\* to since
NoOrphans ==
  [pc |-> "idle", at_checkpoint |-> {}, tracked_with |-> <<{}, {}>>,
   modified |-> FALSE, track_patterns |-> {}, exclude_patterns |-> {},
   result |-> {}]

\* the file tracking service records the files of a checkpoint: the
\* workspace files that pass the filters, by relative or by absolute path
TrackCheckpoint ==
  /\ orphans.pc = "idle"
  /\ \E track \in SUBSET TrackPatterns, exclude \in SUBSET ExcludePatterns,
        abs \in BOOLEAN :
       orphans' = [NoOrphans EXCEPT
                     !.pc = "tracked",
                     !.at_checkpoint =
                        _discover_files(disk.files, abs, track, exclude),
                     !.tracked_with = <<track, exclude>>]
  /\ UNCHANGED <<disk, cleanup>>

\* the workflow goes on after the checkpoint and writes or removes a file
WriteFile ==
  /\ orphans.pc = "tracked"
  /\ \E f \in WorkspaceFiles :
       disk' = [disk EXCEPT !.files = IF f \in @ THEN @ \ {f} ELSE @ \cup {f}]
  /\ orphans' = [orphans EXCEPT !.modified = TRUE]
  /\ UNCHANGED cleanup

\* identify_orphaned_files(checkpoint, execution, workspace, track_patterns,
\* exclude_patterns, file_tracking_service)
identify_orphaned_files ==
  /\ orphans.pc = "tracked"
  /\ \E track \in SUBSET TrackPatterns, exclude \in SUBSET ExcludePatterns,
        abs \in BOOLEAN :
       orphans' = [orphans EXCEPT
                     !.pc = "returned",
                     !.track_patterns = track,
                     !.exclude_patterns = exclude,
                     !.result =
                        Orphaned(orphans.at_checkpoint,
                                 _discover_files(disk.files, abs, track,
                                                 exclude))]
  /\ UNCHANGED <<disk, cleanup>>

\* what the callers of the cleanup service leave alone
UnchangedOutbox ==
  /\ UNCHANGED <<outbox, nextPk, now, cpStore, running, thr, executions,
                 coord, fileTracking, opCount, invocations, completions,
                 restoreLog, script, batch, gc, retried, issue>>
  /\ UnchangedStores

Cleanup ==
  \/ cleanup_orphaned_files /\ UnchangedOutbox /\ UnchangedExtra
  \/ CleanupPath /\ UnchangedOutbox /\ UnchangedExtra
  \/ CleanupReturn /\ UnchangedOutbox /\ UnchangedExtra

Identify ==
  \/ TrackCheckpoint /\ UnchangedOutbox /\ UnchangedExtra
  \/ WriteFile /\ UnchangedOutbox /\ UnchangedExtra
  \/ identify_orphaned_files /\ UnchangedOutbox /\ UnchangedExtra

\* ------------------------------------------------------------------------
\* AgentGitStateAdapter (wtb/infrastructure/adapters/agentgit_state_adapter.py)
\* ------------------------------------------------------------------------
\* the execution each thread works for
ExecutionOf == [t \in Threads |-> IF t = "t1" THEN "A" ELSE "B"]

Nodes == {"n1"}

\* __init__: no current session.  session_of is no field of the class: it
\* keeps, per calling thread, the session id the adapter last returned to it
NewAdapter ==
  [current_session |-> None, current_execution_id |-> "none",
   session_of |-> [t \in Threads |-> None]]

\* sessions: the internal sessions, by id; checkpoints: the checkpoints, by
\* id; boundaries: the node_boundaries rows, by id
EmptyStateDb == [sessions |-> <<>>, checkpoints |-> <<>>, next_cp |-> 1,
                 boundaries |-> <<>>]

\* what an action of the adapter leaves alone
UnchangedByAdapter == UnchangedOutbox /\ UnchangedFiles /\ UnchangedMock

\* initialize_session(execution_id, initial_state)
initialize_session(t) ==
  /\ adapter.session_of[t] = None
  /\ Len(stateDb.sessions) < MaxSessions
  /\ LET id == Len(stateDb.sessions) + 1 IN
       /\ stateDb' = [stateDb EXCEPT
                        !.sessions =
                           Append(@, [wtb_execution_id |-> ExecutionOf[t],
                                      parent_session_id |-> None])]
       /\ adapter' = [adapter EXCEPT
                        !.current_session = id,
                        !.current_execution_id = ExecutionOf[t],
                        !.session_of[t] = id]
  /\ UnchangedByAdapter

\* save_checkpoint(state, node_id, trigger) by a caller that has
\* initialized its session; by and by_session are no fields of Checkpoint:
\* they keep the execution and the session of the caller
save_checkpoint(t) ==
  /\ adapter.session_of[t] # None
  /\ adapter.current_session # None
  /\ stateDb.next_cp <= MaxCheckpoints
  /\ \E node \in Nodes, is_auto \in BOOLEAN :
       stateDb' = [stateDb EXCEPT
                     !.checkpoints =
                        (stateDb.next_cp :>
                           [internal_session_id |-> adapter.current_session,
                            wtb_execution_id |-> adapter.current_execution_id,
                            node_id |-> node,
                            is_auto |-> is_auto,
                            created_at |-> stateDb.next_cp,
                            by |-> ExecutionOf[t],
                            by_session |-> adapter.session_of[t]]) @@ @,
                     !.next_cp = @ + 1]
  /\ UNCHANGED adapter
  /\ UnchangedByAdapter

\* create_branch(from_checkpoint_id)
create_branch(t) ==
  /\ adapter.session_of[t] # None
  /\ adapter.current_session # None
  /\ Len(stateDb.sessions) < MaxSessions
  /\ \E cp \in DOMAIN stateDb.checkpoints :
       LET id == Len(stateDb.sessions) + 1 IN
         /\ stateDb' = [stateDb EXCEPT
                          !.sessions =
                             Append(@, [wtb_execution_id |->
                                          adapter.current_execution_id,
                                        parent_session_id |->
                                          adapter.current_session])]
         /\ adapter' = [adapter EXCEPT !.current_session = id,
                                       !.session_of[t] = id]
  /\ UnchangedByAdapter

\* uow.node_boundaries.find_by_node(session_id, node_id): the id of the
\* boundary of the node in the session, None when there is none
find_by_node(boundaries, session, node) ==
  LET found == {i \in DOMAIN boundaries :
                  /\ boundaries[i].internal_session_id = session
                  /\ boundaries[i].node_id = node}
  IN IF found = {} THEN None ELSE CHOOSE i \in found : \A j \in found : i <= j

\* mark_node_started(node_id, entry_checkpoint_id), by a caller that starts
\* a node of its session once
mark_node_started(t) ==
  /\ adapter.current_session # None
  /\ \E node \in Nodes, entry \in DOMAIN stateDb.checkpoints :
       /\ find_by_node(stateDb.boundaries, adapter.current_session, node)
            = None
       /\ stateDb' = [stateDb EXCEPT
                        !.boundaries =
                           Append(@, [execution_id |->
                                        adapter.current_execution_id,
                                      internal_session_id |->
                                        adapter.current_session,
                                      node_id |-> node,
                                      entry_checkpoint_id |-> entry,
                                      exit_checkpoint_id |-> None,
                                      node_status |-> "started"])]
  /\ UNCHANGED adapter
  /\ UnchangedByAdapter

\* mark_node_completed(node_id, exit_checkpoint_id), the caller passing a
\* checkpoint it has saved
mark_node_completed(t) ==
  /\ adapter.current_session # None
  /\ \E node \in Nodes, exit \in DOMAIN stateDb.checkpoints :
       LET b == find_by_node(stateDb.boundaries, adapter.current_session,
                             node)
       IN /\ b # None
          /\ stateDb' = [stateDb EXCEPT
                           !.boundaries[b].exit_checkpoint_id = exit,
                           !.boundaries[b].node_status = "completed"]
  /\ UNCHANGED adapter
  /\ UnchangedByAdapter

\* mark_node_failed(node_id, error_message)
mark_node_failed(t) ==
  /\ adapter.current_session # None
  /\ \E node \in Nodes :
       LET b == find_by_node(stateDb.boundaries, adapter.current_session,
                             node)
       IN /\ b # None
          /\ stateDb' = [stateDb EXCEPT
                           !.boundaries[b].node_status = "failed"]
  /\ UNCHANGED adapter
  /\ UnchangedByAdapter

\* the auto-checkpoints of the session that are not among its keep_latest
\* newest
ToDelete(checkpoints, session, keep_latest) ==
  LET auto == {c \in DOMAIN checkpoints :
                 /\ checkpoints[c].internal_session_id = session
                 /\ checkpoints[c].is_auto}
  IN {c \in auto :
        Cardinality({d \in auto : checkpoints[d].created_at
                                    > checkpoints[c].created_at})
          >= keep_latest}

\* cleanup(session_id, keep_latest)
adapter_cleanup ==
  /\ \E session \in DOMAIN stateDb.sessions, keep_latest \in {1, 5} :
       LET D == ToDelete(stateDb.checkpoints, session, keep_latest) IN
         /\ D # {}
         /\ stateDb' = [stateDb EXCEPT
                          !.checkpoints =
                             [c \in DOMAIN stateDb.checkpoints \ D |->
                                stateDb.checkpoints[c]]]
  /\ UNCHANGED adapter
  /\ UnchangedByAdapter

\* ------------------------------------------------------------------------
\* MockOutboxRepository (tests/mocks/repositories.py)
\* ------------------------------------------------------------------------
\* __init__.  events: the values of the dict _events in its order (the
\* order of first insertion of each event_id); by_pk: _events_by_pk, from
\* primary key to event_id; lock: the thread that holds _lock
NewMock == [events |-> <<>>, by_pk |-> <<>>, pk_counter |-> 0,
            lock |-> "none"]

\* the event a caller builds: an OutboxEvent with its event_id and no id
MockEvent(event_id, t) ==
  [event_id |-> event_id] @@ NewEvent("checkpoint_verify", 1, 1, None, 0, t)

\* self._events[event.event_id] = event;
\* self._events_by_pk[event.id] = event
MockPut(m, e) ==
  LET at == {i \in 1..Len(m.events) : m.events[i].event_id = e.event_id}
  IN [m EXCEPT
        !.events = IF at = {} THEN Append(@, e)
                   ELSE [i \in 1..Len(@) |-> IF i \in at THEN e ELSE @[i]],
        !.by_pk = IF e.pk = None THEN @ ELSE (e.pk :> e.event_id) @@ @]

\* get_by_id(event_id): the event, [event_id |-> None] standing for None
mock_get_by_id(m, event_id) ==
  LET at == {i \in 1..Len(m.events) : m.events[i].event_id = event_id}
  IN IF at = {} THEN [event_id |-> None]
     ELSE m.events[CHOOSE i \in at : TRUE]

\* pc: "idle", "load", "store", "insert"; n: add calls made; tmp: the value
\* of _pk_counter read by `+= 1`
IdleAdder == [pc |-> "idle", n |-> 0, event |-> None, tmp |-> 0]

\* what a repository call gave back: the error it raised, the events it
\* returned (one event as a list of one) and the count it returned
Returned(error, events, count) ==
  [error |-> error, events |-> events, count |-> count]

\* sql, mock: what the last call gave back on either repository; held: the
\* events the caller has added, as the caller's objects are now
NoResult == [sql |-> Returned("none", <<>>, None),
             mock |-> Returned("none", <<>>, None),
             held |-> <<>>]

\* a caller that passes `with self._lock` without holding the lock
LockFree_Always(m) == TRUE

\* with self._lock: the lock can be taken
LockFree(m) == m.lock = "none"

\* what an add call of the in-memory repository leaves alone
UnchangedByMock ==
  /\ UnchangedOutbox /\ UnchangedFiles /\ UnchangedAdapter
  /\ UNCHANGED result

\* add(event), entered by thread t with a new event: with self._lock
AddAcquire(t) ==
  /\ adders[t].pc = "idle"
  /\ adders[t].n < MaxAdds
  /\ LockFree(mock)
  /\ mock' = [mock EXCEPT !.lock = t]
  /\ adders' = [adders EXCEPT
                  ![t].pc = "load",
                  ![t].event = MockEvent(<<t, adders[t].n + 1>>, now)]
  /\ UnchangedByMock

\* self._pk_counter += 1: the read
AddLoad(t) ==
  /\ adders[t].pc = "load"
  /\ adders' = [adders EXCEPT ![t].pc = "store",
                              ![t].tmp = mock.pk_counter]
  /\ UNCHANGED mock
  /\ UnchangedByMock

\* self._pk_counter += 1: the write
AddStore(t) ==
  /\ adders[t].pc = "store"
  /\ mock' = [mock EXCEPT !.pk_counter = adders[t].tmp + 1]
  /\ adders' = [adders EXCEPT ![t].pc = "insert"]
  /\ UnchangedByMock

\* if event.id is None: event.id = self._pk_counter; the two dict writes;
\* return event, which leaves the with block
AddInsert(t) ==
  /\ adders[t].pc = "insert"
  /\ LET e == [adders[t].event EXCEPT !.pk = mock.pk_counter]
     IN mock' = [MockPut(mock, e) EXCEPT !.lock = "none"]
  /\ adders' = [adders EXCEPT ![t].pc = "idle", ![t].n = @ + 1,
                              ![t].event = None]
  /\ UnchangedByMock

\* list.sort(key=lambda e: e.created_at): a stable sort
SortByCreatedAt(s) ==
  LET p == CHOOSE q \in [1..Len(s) -> 1..Len(s)] :
             /\ \A i, j \in 1..Len(s) : i # j => q[i] # q[j]
             /\ \A i, j \in 1..Len(s) :
                  i < j => \/ s[q[i]].created_at < s[q[j]].created_at
                           \/ /\ s[q[i]].created_at = s[q[j]].created_at
                              /\ q[i] < q[j]
  IN [i \in 1..Len(s) |-> s[p[i]]]

\* MockOutboxRepository.add as one step
mock_add(m, e) ==
  LET c == m.pk_counter + 1 IN
    MockPut([m EXCEPT !.pk_counter = c],
            IF e.pk = None THEN [e EXCEPT !.pk = c] ELSE e)

\* MockOutboxRepository.update: the event is stored whether or not it was
\* there
mock_update(m, e) == MockPut(m, e)

mock_get_pending(m, limit) ==
  Limit(SortByCreatedAt(SelectSeq(m.events,
                                  LAMBDA e : e.status = "pending")), limit)

mock_list_all(m, limit) == Limit(SortByCreatedAt(m.events), limit)

\* MockOutboxRepository.delete_processed: the event_ids it deletes
mock_delete_processed(m, before, limit) ==
  LET old == SelectSeq(m.events,
                       LAMBDA e : /\ e.status = "processed"
                                  /\ e.processed_at # None
                                  /\ e.processed_at < before)
  IN {old[i].event_id : i \in 1..Min(limit, Len(old))}

MockRemove(m, ids) ==
  [m EXCEPT
     !.events = SelectSeq(@, LAMBDA e : e.event_id \notin ids),
     !.by_pk = [k \in {j \in DOMAIN @ : @[j] \notin ids} |-> @[k]]]

\* SQLAlchemyOutboxRepository.list_all: created_at descending
list_all(ob, limit) ==
  {ToDomain(ob, Limit([i \in 1..Len(s) |-> s[Len(s) + 1 - i]], limit)) :
     s \in OrderedByCreatedAt(ob, DOMAIN ob)}

\* what a call made on both repositories leaves alone
UnchangedByRepos ==
  /\ UNCHANGED <<running, thr, script, gc, retried, issue, adders>>
  /\ UnchangedGhosts /\ UnchangedCoord /\ UnchangedEnv /\ UnchangedAdapter

\* add(event) on both repositories, the event new and without id
RepoAdd ==
  /\ nextPk <= MaxEvents
  /\ LET e == MockEvent(nextPk, now) IN
       /\ outbox' = add(outbox, e, nextPk)
       /\ mock' = mock_add(mock, e)
       /\ result' =
            [sql |-> Returned("none", <<outbox'[nextPk]>>, None),
             mock |-> Returned("none",
                               <<mock_get_by_id(mock', e.event_id)>>, None),
             held |-> (nextPk :> outbox'[nextPk]) @@ result.held]
  /\ nextPk' = nextPk + 1
  /\ UnchangedByRepos

\* update(event) on both repositories, the event one that a repository
\* handed out before, marked processed or failed by the caller
RepoUpdate ==
  /\ \E k \in DOMAIN result.held, failed \in BOOLEAN :
       /\ failed => result.held[k].retry_count < MaxRetries
       /\ LET e == IF failed THEN mark_failed(result.held[k], "error")
                             ELSE mark_processed(result.held[k], now)
              h == [result.held EXCEPT ![k] = e]
          IN /\ IF UpdateRaises(outbox, e)
                  THEN /\ UNCHANGED outbox
                       /\ result' = [sql |-> Returned("ValueError", <<>>, None),
                                     mock |-> Returned("none", <<e>>, None),
                                     held |-> h]
                  ELSE /\ outbox' = update(outbox, e)
                       /\ result' =
                            [sql |-> Returned("none", <<outbox'[k]>>, None),
                             mock |-> Returned("none", <<e>>, None),
                             held |-> h]
             /\ mock' = mock_update(mock, e)
  /\ UNCHANGED nextPk
  /\ UnchangedByRepos

\* get_pending(limit) or list_all(limit) on both repositories
RepoRead ==
  /\ \/ \E r \in get_pending(outbox, ListLimit) :
          result' = [result EXCEPT
                       !.sql = Returned("none", r, None),
                       !.mock = Returned("none",
                                         mock_get_pending(mock, ListLimit),
                                         None)]
     \/ \E r \in list_all(outbox, ListLimit) :
          result' = [result EXCEPT
                       !.sql = Returned("none", r, None),
                       !.mock = Returned("none",
                                         mock_list_all(mock, ListLimit),
                                         None)]
  /\ UNCHANGED <<outbox, nextPk, mock>>
  /\ UnchangedByRepos

\* delete_processed(before, limit) on both repositories
RepoDelete ==
  /\ \E limit \in {1, CleanupLimit} :
       \E D \in delete_processed(outbox, now + 1, limit) :
         LET ids == mock_delete_processed(mock, now + 1, limit) IN
           /\ outbox' = Remove(outbox, D)
           /\ mock' = MockRemove(mock, ids)
           /\ result' = [result EXCEPT
                           !.sql = Returned("none", <<>>, Cardinality(D)),
                           !.mock = Returned("none", <<>>, Cardinality(ids))]
  /\ UNCHANGED nextPk
  /\ UnchangedByRepos

\* no file, no cleanup call, no identify_orphaned_files call
NoFiles ==
  /\ disk = EmptyDisk
  /\ cleanup = IdleCleanup
  /\ orphans = NoOrphans

\* a processor with a checkpoint repository, no link, no file commit
DefaultStores ==
  /\ checkpointRepo = TRUE
  /\ checkpointFiles = <<>>
  /\ fileCommits = {}

InitStores ==
  /\ outbox = <<>>
  /\ nextPk = 1
  /\ now = 0
  /\ running = FALSE
  /\ thr = [t \in Threads |-> IdleThread]
  /\ executions = (1 :> [status |-> "running", cp |-> "c2",
                         vars |-> CheckpointState["c2"]])
  /\ coord = IdleCoord
  /\ opCount = 0
  /\ batch = IdleBatch
  /\ invocations = [k \in 1..(MaxEvents + 1) |-> 0]
  /\ completions = [k \in 1..(MaxEvents + 1) |-> 0]
  /\ restoreLog = {}
  /\ gc = NoGc
  /\ retried = None
  /\ issue = NoIssue
  /\ adapter = NewAdapter
  /\ stateDb = EmptyStateDb
  /\ mock = NewMock
  /\ adders = [t \in Threads |-> IdleAdder]
  /\ result = NoResult

Maintenance ==
  \/ RetryFailedEvents
  \/ CleanupOldEvents

Coordinator ==
  \/ CoordCall
  \/ CoordCommit
  \/ CoordExcept
  \/ CoordPostCommit
  \/ CoordReturn

\* the body of _process_batch, one event after the other
Step(t) ==
  \/ Claim(t)
  \/ Handle(t)
  \/ Finish(t)
  \/ Fail(t)

\* Calls of process_once, retry_failed_events and cleanup_old_events, one
\* after the other, on an outbox fed by producers of verification events.
Init ==
  /\ InitStores
  /\ DefaultStores
  /\ NoFiles
  /\ cpStore = {}
  /\ fileTracking = TRUE
  /\ script = NoScript

Next ==
  \/ \E t \in SeqThreads : ProcessOnce(t) \/ Step(t)
  \/ Maintenance
  \/ Tick
  \/ SaveCheckpoint
  \/ AddEvent

Spec == Init /\ [][Next]_vars

\* Clients that add events with idempotency keys, and process_once calls.
IdemNext ==
  \/ \E t \in SeqThreads : ProcessOnce(t) \/ Step(t)
  \/ RetryFailedEvents
  \/ SaveCheckpoint
  \/ AddKeyedEvent

IdemSpec == Init /\ [][IdemNext]_vars

\* process_once and retry_failed_events beside an operator who resets
\* failed events by hand.
ResetNext ==
  \/ \E t \in SeqThreads : ProcessOnce(t) \/ Step(t)
  \/ RetryFailedEvents
  \/ ResetForRetry
  \/ SaveCheckpoint
  \/ AddEvent

ResetSpec == Init /\ [][ResetNext]_vars

\* The background loop of the processor: start, stop, and the death of the
\* worker in the middle of an event.
LoopNext ==
  \/ \E t \in SeqThreads : Start(t) \/ LoopIter(t) \/ Step(t)
  \/ Stop
  \/ Crash
  \/ RetryFailedEvents
  \/ SaveCheckpoint
  \/ AddEvent

LoopSpec == Init /\ [][LoopNext]_vars

\* process_once and retry_failed_events on an outbox that also gets events
\* of a type without a handler.
NoHandlerNext ==
  \/ \E t \in SeqThreads : ProcessOnce(t) \/ Step(t)
  \/ RetryFailedEvents
  \/ SaveCheckpoint
  \/ AddEvent
  \/ AddUnhandledEvent

NoHandlerSpec == Init /\ [][NoHandlerNext]_vars

\* Two threads that share the adapter of the coordinator, each working for
\* its own execution.
SharedAdapterNext ==
  \E t \in Threads :
    \/ initialize_session(t)
    \/ save_checkpoint(t)
    \/ create_branch(t)

SharedAdapterSpec == Init /\ [][SharedAdapterNext]_vars

\* One execution that saves checkpoints, marks node boundaries and cleans
\* up old auto-checkpoints.
BoundaryNext ==
  \/ \E t \in SeqThreads :
       \/ initialize_session(t)
       \/ save_checkpoint(t)
       \/ mark_node_started(t)
       \/ mark_node_completed(t)
       \/ mark_node_failed(t)
  \/ adapter_cleanup

BoundarySpec == Init /\ [][BoundaryNext]_vars

\* One caller that makes the same calls on a SQLAlchemyOutboxRepository
\* and on a MockOutboxRepository, as time passes.
RepoNext ==
  \/ RepoAdd
  \/ RepoUpdate
  \/ RepoRead
  \/ RepoDelete
  \/ Tick

RepoSpec == Init /\ [][RepoNext]_vars

\* Threads that add events with distinct event_ids to one in-memory
\* repository, as time passes.
MockAddNext ==
  \/ \E t \in Threads :
       \/ AddAcquire(t)
       \/ AddLoad(t)
       \/ AddStore(t)
       \/ AddInsert(t)
  \/ Tick

MockAddSpec == Init /\ [][MockAddNext]_vars

\* start() and stop(timeout) in any order: stop returns when the flag is
\* cleared, whether or not the join has seen the loop thread end, and
\* start spawns a new thread.
RestartNext ==
  \/ \E t \in Threads : Start(t) \/ LoopIter(t) \/ Step(t)
  \/ Stop
  \/ SaveCheckpoint
  \/ AddEvent

RestartSpec == Init /\ [][RestartNext]_vars

\* Workers that die in the middle of an event, and the integrity check
\* that reports the events they leave in PROCESSING.
IntegrityNext ==
  \/ \E t \in SeqThreads : ProcessOnce(t) \/ Step(t)
  \/ Crash
  \/ RetryFailedEvents
  \/ SaveCheckpoint
  \/ AddEvent
  \/ CheckStuck

IntegritySpec == Init /\ [][IntegrityNext]_vars

\* Calls of process_once and retry_failed_events, the return value of the
\* latter recorded.
RetryNext ==
  \/ \E t \in SeqThreads : ProcessOnce(t) \/ Step(t)
  \/ RetryCall
  \/ SaveCheckpoint
  \/ AddEvent

RetrySpec == Init /\ [][RetryNext]_vars

\* Calls of process_once and cleanup_old_events as time passes.
GcNext ==
  \/ \E t \in SeqThreads : ProcessOnce(t) \/ Step(t)
  \/ cleanup_old_events
  \/ Tick
  \/ SaveCheckpoint
  \/ AddEvent

GcSpec == Init /\ [][GcNext]_vars

\* A processor built with or without a checkpoint repository, over a
\* database that may hold the link of checkpoint 1 and a file store that
\* may hold commit 1, fed with verification events.
VerifyInit ==
  /\ InitStores
  /\ NoFiles
  /\ checkpointRepo \in BOOLEAN
  /\ checkpointFiles \in {<<>>, <<1>>, <<2>>}
  /\ fileCommits \in SUBSET {1}
  /\ cpStore = {}
  /\ fileTracking = TRUE
  /\ script = NoScript

VerifyNext ==
  \/ \E t \in SeqThreads : ProcessOnce(t) \/ Step(t)
  \/ SaveCheckpoint
  \/ AddVerifyEvent

VerifySpec == VerifyInit /\ [][VerifyNext]_vars

\* A caller that inserts one event and then makes its calls one after the
\* other, while the checkpoint the event refers to may be saved at any time.
ScenarioInit ==
  /\ InitStores
  /\ DefaultStores
  /\ NoFiles
  /\ cpStore = {}
  /\ fileTracking = TRUE
  /\ script \in {[calls |-> c, pos |-> 1] : c \in Scripts}

ScenarioNext ==
  \/ ScriptAdd
  \/ \E t \in SeqThreads : ScriptProcessOnce(t) \/ Step(t)
  \/ ScriptRetry
  \/ SaveCheckpoint

ScenarioSpec == ScenarioInit /\ [][ScenarioNext]_vars

\* The background loop scheduled fairly; retry_failed_events is a public
\* method that the loop does not call and that nobody has to call.
RunNext ==
  \/ \E t \in SeqThreads : Start(t) \/ LoopIter(t) \/ Step(t)
  \/ Stop
  \/ RetryFailedEvents
  \/ SaveCheckpoint
  \/ AddEvent

RunSpec ==
  /\ Init
  /\ [][RunNext]_vars
  /\ \A t \in SeqThreads : WF_vars(Start(t) \/ LoopIter(t) \/ Step(t))

\* Two workers on the same outbox: two process_once callers, or one beside
\* the background loop.
ConcNext ==
  \/ \E t \in Threads : Start(t) \/ LoopIter(t) \/ ProcessOnce(t) \/ Step(t)
  \/ Stop
  \/ RetryFailedEvents
  \/ SaveCheckpoint
  \/ AddEvent

ConcSpec == Init /\ [][ConcNext]_vars

\* The coordinator, with or without a file tracking service, beside other
\* producers.
CoordInit ==
  /\ InitStores
  /\ DefaultStores
  /\ NoFiles
  /\ cpStore = {}
  /\ fileTracking \in BOOLEAN
  /\ script = NoScript

CoordNext ==
  \/ Coordinator
  \/ Tick
  \/ AddEvent

CoordSpec == CoordInit /\ [][CoordNext]_vars

\* A caller of cleanup_orphaned_files in a workspace holding any of the
\* files.
CleanupInit ==
  /\ InitStores
  /\ DefaultStores
  /\ cpStore = {}
  /\ fileTracking = TRUE
  /\ script = NoScript
  /\ disk \in {[EmptyDisk EXCEPT !.files = F, !.backup_dir = b] :
                 F \in SUBSET WorkspaceFiles, b \in BOOLEAN}
  /\ cleanup = IdleCleanup
  /\ orphans = NoOrphans

CleanupSpec == CleanupInit /\ [][Cleanup]_vars

\* A checkpoint tracked in a workspace holding any of the files, the
\* workflow writing on, and a caller of identify_orphaned_files.
IdentifySpec == CleanupInit /\ [][Identify]_vars

\* Callers of batch_operate and of the four operations, with a file
\* tracking service.
BatchInit ==
  /\ InitStores
  /\ DefaultStores
  /\ NoFiles
  /\ cpStore = {}
  /\ fileTracking = TRUE
  /\ script = NoScript

BatchNext ==
  \/ BatchOperate
  \/ Coordinator

BatchSpec == BatchInit /\ [][BatchNext]_vars

\* The coordinator with a file tracking service and a processor whose loop
\* is scheduled fairly and whose failed events are reset again and again;
\* the checkpoint the other producers' events refer to is in the store.
LiveInit ==
  /\ InitStores
  /\ DefaultStores
  /\ NoFiles
  /\ cpStore = {1}
  /\ fileTracking = TRUE
  /\ script = NoScript

LiveNext ==
  \/ Coordinator
  \/ \E t \in SeqThreads : Start(t) \/ LoopIter(t) \/ Step(t)
  \/ Stop
  \/ RetryFailedEvents
  \/ AddEvent

LiveSpec ==
  /\ LiveInit
  /\ [][LiveNext]_vars
  /\ \A t \in SeqThreads : WF_vars(Start(t) \/ LoopIter(t) \/ Step(t))
  /\ WF_vars(RetryFailedEvents)
  /\ WF_vars(Coordinator)

\* ------------------------------------------------------------------------
\* Properties
\* ------------------------------------------------------------------------
Pks(s) == {s[i].pk : i \in 1..Len(s)}

Fetchable(ob) ==
  UNION {Pks(s) : s \in get_pending(ob, BatchSize)}
  \cup UNION {Pks(s) : s \in get_failed_for_retry(ob, RetryLimit)}

NoProcessedFetchable(ob) ==
  \A k \in DOMAIN ob : ob[k].status = "processed" => k \notin Fetchable(ob)

\* C1: once an event is PROCESSED, no sequence of process_once,
\* retry_failed_events and cleanup_old_events calls dispatches it again:
\* get_pending and get_failed_for_retry never return it, and its row never
\* changes again (it can only be removed by the garbage collection).
C1_ProcessedIsTerminal ==
  [][/\ NoProcessedFetchable(outbox)
     /\ NoProcessedFetchable(outbox')
     /\ \A k \in DOMAIN outbox :
          (outbox[k].status = "processed" /\ k \in DOMAIN outbox')
            => outbox'[k] = outbox[k]]_vars

\* a later batch is being handled while an earlier event is PROCESSED
C1_Witness ==
  \E k \in DOMAIN outbox :
    /\ outbox[k].status = "processed"
    /\ thr["t1"].pc = "handle"
    /\ Current("t1").pk # k
    /\ Len(thr["t1"].batch) = 1

\* C2: the typed handler of an event returns normally at most once, also
\* when the write that records PROCESSED raises after the handler returned.
C2_HandlerCompletesAtMostOnce ==
  \A k \in 1..MaxEvents : completions[k] <= 1

RestoreRows ==
  {k \in DOMAIN outbox : outbox[k].event_type = "rollback_file_restore"}

\* a committed rollback has left its ROLLBACK_FILE_RESTORE event
RestoreQueued == RestoreRows # {}

\* every such event is PROCESSED after the processor restored its commit
RestoreDone ==
  \A k \in RestoreRows :
    /\ outbox[k].status = "processed"
    /\ <<"processor", outbox[k].commit_id>> \in restoreLog

\* C3: with the processor running, the ROLLBACK_FILE_RESTORE event of a
\* committed rollback is eventually handled by a restore_commit of its
\* commit and PROCESSED.
C3_RestoreEventuallyProcessed ==
  (<>[]running) => (RestoreQueued ~> RestoreDone)

\* C4: when a step of Phase 1 raises, the exception reaches the caller
\* with the UoW rolled back, and neither the operation's execution state
\* change nor any of its outbox events is visible.
C4_FailedPhase1LeavesNothing ==
  /\ coord.pc \in {"except", "raised"} =>
       /\ executions = coord.preExec
       /\ \A k \in DOMAIN outbox : outbox[k].op # coord.id
  /\ coord.pc = "raised" => coord.uowExec = <<>> /\ coord.uowOut = <<>>

\* a rollback operation has raised after the controller changed the state
\* inside the UoW and a file commit id was extracted from it
C4_Witness ==
  /\ coord.pc = "raised"
  /\ IsRollback(coord.op)
  /\ coord.fcid # None

OperationRows(type) ==
  {k \in DOMAIN outbox : /\ outbox[k].op = coord.id
                         /\ outbox[k].event_type = type}

\* C5: a committed rollback or rollback_and_run has enqueued one
\* ROLLBACK_PERFORMED event and, exactly when a file commit id was
\* extracted, one ROLLBACK_FILE_RESTORE event with that commit id.
C5_RollbackEnqueuesRestore ==
  (coord.pc \in {"post", "done"} /\ IsRollback(coord.op)) =>
    /\ Cardinality(OperationRows("rollback_performed")) = 1
    /\ coord.fcid = None => OperationRows("rollback_file_restore") = {}
    /\ coord.fcid # None =>
         /\ Cardinality(OperationRows("rollback_file_restore")) = 1
         /\ \A k \in OperationRows("rollback_file_restore") :
              outbox[k].commit_id = coord.fcid

\* C6: the coordinator never calls restore_commit; only the outbox
\* processor does.
C6_CoordinatorNeverRestores ==
  \A entry \in restoreLog : entry[1] # "coordinator"

\* C7: a FAILED event with retry_count >= max_retries is never dispatched
\* by process_once, and the handler of one event is invoked at most
\* max_retries times.
C7_RetriesBounded ==
  /\ \A k \in 1..MaxEvents : invocations[k] <= MaxRetries
  /\ \A k \in DOMAIN outbox :
       (outbox[k].status = "failed"
          /\ outbox[k].retry_count >= outbox[k].max_retries)
         => /\ \A s \in get_pending(outbox, BatchSize) : k \notin Pks(s)
            /\ \A t \in SeqThreads :
                 thr[t].pc # "idle" =>
                   \A i \in thr[t].idx..Len(thr[t].batch) :
                     thr[t].batch[i].pk # k

\* an event has used up its retries
C7_Witness ==
  \E k \in DOMAIN outbox :
    /\ outbox[k].status = "failed"
    /\ outbox[k].retry_count = outbox[k].max_retries
    /\ invocations[k] = MaxRetries

HandlerErrors == {"checkpoint_not_found", "missing_checkpoint_id"}

SameKey(j, k) ==
  /\ j # k
  /\ outbox[j].requested_key # "none"
  /\ outbox[j].requested_key = outbox[k].requested_key

\* C11: an add whose idempotency key equals that of a stored event is
\* rejected: the outbox never holds two events created with the same
\* idempotency key (so no handler runs for a second event of a key).
C11_KeysAreUnique ==
  \A j, k \in DOMAIN outbox : ~SameKey(j, k)

\* C12: the retry_count of an event never decreases, whatever is applied to
\* it (mark_processing, mark_processed, mark_failed, retry_failed_events,
\* reset_for_retry, update).
C12_RetryCountNeverDecreases ==
  [][\A k \in (DOMAIN outbox) \cap (DOMAIN outbox') :
       outbox'[k].retry_count >= outbox[k].retry_count]_vars

\* event k is PROCESSED, or FAILED with its retries used up
Settled(k) ==
  /\ k \in DOMAIN outbox
  /\ \/ outbox[k].status = "processed"
     \/ /\ outbox[k].status = "failed"
        /\ outbox[k].retry_count >= outbox[k].max_retries

\* C13: while the background loop keeps running, every event eventually
\* becomes PROCESSED or FAILED with retry_count >= max_retries (a FAILED
\* event below the cap is dispatched again).
C13_EveryEventSettles ==
  (<>[]running) =>
    \A k \in 1..MaxEvents : (k \in DOMAIN outbox) ~> Settled(k)

\* the caller of the retry scenario has made its first n - 1 calls and the
\* last of them has returned
ScenarioAt(n) ==
  /\ script.calls = RetryScenario
  /\ script.pos = n
  /\ \A t \in SeqThreads : thr[t].mode = "none"

\* the handler of event 1 raised on its first two invocations and returned
\* on every later one, and no status write failed
FailsTwiceThenSucceeds ==
  /\ completions[1] = (IF invocations[1] > 2 THEN invocations[1] - 2 ELSE 0)
  /\ outbox[1].last_error # "db_error"

\* C14: for one event whose handler fails on its first two invocations and
\* succeeds afterwards, process_once, process_once leave it FAILED with
\* retry_count 1 or 2 and a last_error, and retry_failed_events,
\* process_once then leave it PROCESSED with retry_count 2.
C14_RetryScenario ==
  /\ (ScenarioAt(4) /\ FailsTwiceThenSucceeds) =>
       /\ outbox[1].status = "failed"
       /\ outbox[1].retry_count \in {1, 2}
       /\ outbox[1].last_error # "none"
  /\ (ScenarioAt(6) /\ FailsTwiceThenSucceeds) =>
       /\ outbox[1].status = "processed"
       /\ outbox[1].retry_count = 2

\* C15: an event whose type has no registered handler is never PROCESSED
\* and, once it is FAILED, is not touched again by process_once or
\* retry_failed_events: it is failed exactly once.
C15_NoHandlerFailsOnce ==
  [][\A k \in (DOMAIN outbox) \cap (DOMAIN outbox') :
       outbox[k].event_type \notin Handlers =>
         /\ outbox'[k].status # "processed"
         /\ outbox'[k].retry_count <= 1
         /\ outbox[k].status = "failed" => outbox'[k] = outbox[k]]_vars

Holding(t) == thr[t].pc \in {"handle", "finish", "fail"}

\* C9: of two workers running _process_batch on the same outbox only one
\* wins the claim of an event, so the two never hold the same event.
C9_SingleClaimWinner ==
  \A t, u \in Threads :
    (t # u /\ Holding(t) /\ Holding(u)) => Current(t).pk # Current(u).pk

\* C10: start() demotes to PENDING every event that was left in PROCESSING.
C10_StartDemotesProcessing ==
  [][(~running /\ running') =>
       \A k \in DOMAIN outbox :
         outbox[k].status = "processing" => outbox'[k].status = "pending"]_vars

\* the rows committed by coordinator operation id
RowsOf(id) == {k \in DOMAIN outbox : outbox[k].op = id}

\* the effects of the request with result res are in the stores: the
\* event of its operation and, for a fork, the forked execution
Persisted(res) ==
  /\ res.uow = "committed"
  /\ \E k \in RowsOf(res.id) :
       outbox[k].event_type = IF IsRollback(res.op) THEN "rollback_performed"
                                                   ELSE "execution_forked"
  /\ ~IsRollback(res.op) => res.new_execution_id \in DOMAIN executions

\* the request with result res has created no UoW or rolled it back, and
\* left no row
LeftNothing(res) ==
  /\ res.uow \in {"none", "rolled_back"}
  /\ res.id # 0 => RowsOf(res.id) = {}

\* result i is the result of request i
InInputOrder ==
  /\ Len(batch.results) = Len(batch.requests)
  /\ \A i \in 1..Len(batch.results) :
       /\ batch.results[i].op = batch.requests[i].op
       /\ batch.results[i].cp = batch.requests[i].cp

\* the coordinator calls of the batch, each with a UoW of its own
Dispatched == {i \in 1..Len(batch.results) : batch.results[i].id # 0}

\* C16: batch_operate with stop_on_error=false returns one result per
\* request, in input order; a failing request is reported with
\* success=false and has left nothing, the others' effects are committed,
\* each in a UoW of its own.
C16_OneResultPerRequest ==
  (batch.pc = "returned" /\ ~batch.stop_on_error) =>
    /\ Len(batch.results) = batch.n
    /\ InInputOrder
    /\ \A i \in 1..Len(batch.results) :
         IF batch.results[i].success THEN Persisted(batch.results[i])
         ELSE LeftNothing(batch.results[i])
    /\ \A i, j \in Dispatched :
         i # j => batch.results[i].id # batch.results[j].id

\* a batch has returned in which a request failed in its UoW before a
\* later one succeeded
C16_Witness ==
  /\ batch.pc = "returned"
  /\ ~batch.stop_on_error
  /\ \E i, j \in 1..Len(batch.results) :
       /\ i < j
       /\ ~batch.results[i].success
       /\ batch.results[i].uow = "rolled_back"
       /\ batch.results[j].success

\* C17: batch_operate with stop_on_error=true returns the results of the
\* requests up to and including the first failing one, and nothing was
\* executed for a later request: no coordinator call, no UoW, no row.
C17_StopsAtFirstFailure ==
  (batch.pc = "returned" /\ batch.stop_on_error) =>
    /\ Len(batch.results) <= batch.n
    /\ InInputOrder
    /\ \A i \in 1..Len(batch.results) :
         ~batch.results[i].success => i = Len(batch.results)
    /\ Len(batch.results) < batch.n =>
         /\ batch.results # <<>>
         /\ ~batch.results[Len(batch.results)].success
    /\ coord = IdleCoord
    /\ opCount = batch.base + Cardinality(Dispatched)
    /\ \A k \in DOMAIN outbox :
         outbox[k].op > batch.base =>
           \E i \in Dispatched : /\ batch.results[i].id = outbox[k].op
                                  /\ batch.results[i].success

\* a batch has stopped at a failing request before its last request
C17_Witness ==
  /\ batch.pc = "returned"
  /\ batch.stop_on_error
  /\ Len(batch.results) < batch.n
  /\ ~batch.results[Len(batch.results)].success

\* the step is a direct call of rollback_and_run / fork_and_run without a
\* compiled graph
GraphlessCall ==
  /\ coord.pc = "idle"
  /\ coord'.pc # "idle"
  /\ IsRun(coord'.op)
  /\ ~coord'.graph

\* in the step the loop of batch_operate takes such a request
GraphlessRequest ==
  /\ Len(batch'.requests) = Len(batch.requests) + 1
  /\ IsRun(batch'.requests[Len(batch'.requests)].op)
  /\ ~batch'.requests[Len(batch'.requests)].graph

\* C18: rollback_and_run and fork_and_run without a compiled graph raise
\* before a UoW is created, the controller is invoked or an event is
\* added; in batch_operate such a request yields a failed result, no
\* coordinator operation is started and no state changes.
C18_NoGraphFailsFast ==
  [][/\ GraphlessCall =>
          /\ coord'.pc = "raised"
          /\ coord'.uow = "none"
          /\ ~coord'.called
          /\ coord'.uowExec = <<>> /\ coord'.uowOut = <<>>
          /\ UNCHANGED <<executions, outbox, nextPk, restoreLog>>
     /\ GraphlessRequest =>
          /\ batch'.results =
               Append(batch.results,
                      Result(batch'.requests[Len(batch'.requests)],
                             FALSE, 0, 0, "none"))
          /\ UNCHANGED <<executions, outbox, nextPk, restoreLog, coord,
                         opCount>>]_vars

\* a batch in which a graphless *_and_run request was failed after
\* another request had committed its effects
C18_Witness ==
  \E i, j \in 1..Len(batch.results) :
    /\ i < j
    /\ batch.results[i].success
    /\ IsRun(batch.results[j].op)
    /\ batch.results[j].id = 0
    /\ ~batch.results[j].success

\* C19: a committed fork has left the source execution as it was, has
\* created a new execution with another id in status PENDING, and has
\* enqueued with it one EXECUTION_FORKED event whose aggregate id is the
\* new execution's id, and no other event.
C19_ForkLeavesSource ==
  (coord.pc = "done" /\ coord.op = "fork") =>
    /\ executions[coord.exec] = coord.preExec[coord.exec]
    /\ coord.target # coord.exec
    /\ coord.target \notin DOMAIN coord.preExec
    /\ coord.target \in DOMAIN executions
    /\ executions[coord.target].status = "pending"
    /\ Cardinality(OperationRows("execution_forked")) = 1
    /\ \A k \in OperationRows("execution_forked") :
         outbox[k].aggregate_id = coord.target
    /\ OperationRows("rollback_file_restore") = {}
    /\ RowsOf(coord.id) = OperationRows("execution_forked")

\* a fork from a checkpoint that has a file commit has returned
C19_Witness ==
  /\ coord.pc = "done"
  /\ coord.op = "fork"
  /\ _extract_file_commit_id(executions[coord.target]) # None

Range(l) == {l[i] : i \in 1..Len(l)}

C22_DryRunChangesNothing ==
  (cleanup.pc # "idle" /\ cleanup.dry_run) =>
    /\ disk = cleanup.before
    /\ cleanup.pc \in {"loop", "returned"}
    /\ cleanup.pc = "returned" =>
         /\ cleanup.deleted_paths =
              SelectSeq(cleanup.orphaned_paths, LAMBDA q : exists(disk, q))
         /\ cleanup.backed_up_paths =
              (IF cleanup.backup_dir THEN cleanup.deleted_paths ELSE <<>>)
         /\ cleanup.skipped_paths =
              SelectSeq(cleanup.orphaned_paths, LAMBDA q : ~exists(disk, q))
         /\ cleanup.errors = <<>>

\* a dry run above the cap, with a backup directory named that does not
\* exist, over an existing and a missing path
C22_Witness ==
  /\ cleanup.pc = "returned"
  /\ cleanup.dry_run
  /\ cleanup.backup_dir
  /\ ~disk.backup_dir
  /\ Len(cleanup.orphaned_paths) > cleanup.max_files
  /\ cleanup.deleted_paths # <<>>
  /\ cleanup.skipped_paths # <<>>

\* C23: in live mode with backup_dir set, every path in deleted_paths is in
\* backed_up_paths and has a backup copy on disk.
C23_BackupFirst ==
  (cleanup.pc # "idle" /\ ~cleanup.dry_run /\ cleanup.backup_dir) =>
    \A q \in Range(cleanup.deleted_paths) :
      /\ q \in Range(cleanup.backed_up_paths)
      /\ \E b \in disk.backups : b.of = q.parts

\* C24: in live mode below the cap an error on a path is recorded in
\* errors with the path in skipped_paths and never ends the loop: every
\* path is processed, and a missing path is skipped without an error.
C24_ErrorsNeverAbort ==
  (/\ cleanup.pc # "idle"
   /\ ~cleanup.dry_run
   /\ Len(cleanup.orphaned_paths) <= cleanup.max_files) =>
    /\ cleanup.pc = "raised" => cleanup.idx = 0
    /\ \A q \in cleanup.faults :
         /\ q \in Range(cleanup.skipped_paths)
         /\ \E i \in 1..Len(cleanup.errors) : cleanup.errors[i].paths = <<q>>
    /\ cleanup.pc = "returned" =>
         /\ cleanup.idx = Len(cleanup.orphaned_paths) + 1
         /\ Len(cleanup.deleted_paths) + Len(cleanup.skipped_paths) =
              Len(cleanup.orphaned_paths)
         /\ \A q \in Range(cleanup.orphaned_paths) :
              ~exists(cleanup.before, q) =>
                /\ q \in Range(cleanup.skipped_paths)
                /\ \A i \in 1..Len(cleanup.errors) :
                     cleanup.errors[i].paths # <<q>>

\* the workspace files that match a track pattern, match no exclude
\* pattern and lie in no hidden directory
Candidates ==
  {f \in disk.files :
     /\ \E pattern \in orphans.track_patterns :
          fnmatch(f, pattern) \/ fnmatch(basename(f), pattern)
     /\ ~\E pattern \in orphans.exclude_patterns :
           fnmatch(f, pattern) \/ fnmatch(basename(f), pattern)
     /\ ~\E i \in 1..Len(f) : f[i] = ".git"}

\* the files recorded at the checkpoint
AtCheckpoint == {q.parts : q \in orphans.at_checkpoint}

Removed == (DOMAIN outbox) \ (DOMAIN outbox')

C27_HandlerRunsUnderProcessing ==
  \A t \in Threads :
    thr[t].pc = "handle" =>
      /\ Current(t).pk \in DOMAIN outbox
      /\ outbox[Current(t).pk].status = "processing"

\* C28: the events of one batch are dispatched in ascending created_at
\* order, events of equal created_at in ascending primary key order
C28_BatchInCreationThenPkOrder ==
  \A t \in Threads :
    \A i, j \in 1..Len(thr[t].batch) :
      i < j =>
        \/ thr[t].batch[i].created_at < thr[t].batch[j].created_at
        \/ /\ thr[t].batch[i].created_at = thr[t].batch[j].created_at
           /\ thr[t].batch[i].pk < thr[t].batch[j].pk

\* a row of one of the given types that was marked PROCESSED
ProcessedOf(types) ==
  {k \in DOMAIN outbox : /\ outbox[k].status = "processed"
                         /\ outbox[k].event_type \in types}

\* C29: a CHECKPOINT_CREATE or CHECKPOINT_VERIFY event is PROCESSED only if
\* the checkpoint named in its payload exists in the checkpoint store
C29_ProcessedOnlyIfCheckpointExists ==
  \A k \in ProcessedOf({"checkpoint_create", "checkpoint_verify"}) :
    outbox[k].checkpoint_id \in cpStore

\* C30: a CHECKPOINT_FILE_LINK_VERIFY event is PROCESSED only if the
\* checkpoint exists, its link carries the commit id of the payload and
\* that commit is in the file store with its blobs
C30_ProcessedOnlyIfStoresAgree ==
  \A k \in ProcessedOf({"checkpoint_file_link_verify"}) :
    /\ outbox[k].checkpoint_id \in cpStore
    /\ find_by_checkpoint(checkpointFiles, outbox[k].checkpoint_id)
         = outbox[k].commit_id
    /\ outbox[k].commit_id \in fileCommits

\* the number of entries of the list l that are q
Count(l, q) == Cardinality({i \in 1..Len(l) : l[i] = q})

\* C39: a cleanup_orphaned_files call that was not refused by the cap
\* returns a result in which every input path is either deleted or skipped,
\* once per occurrence; the counters are the lengths of the lists and
\* every error names a skipped path
C39_EveryPathAccountedOnce ==
  (/\ cleanup.pc = "returned"
   /\ ~ExceedsCap(cleanup.orphaned_paths, cleanup.max_files,
                  cleanup.dry_run)) =>
    /\ cleanup.files_deleted + cleanup.files_skipped
         = Len(cleanup.orphaned_paths)
    /\ cleanup.files_deleted = Len(cleanup.deleted_paths)
    /\ cleanup.files_skipped = Len(cleanup.skipped_paths)
    /\ \A q \in Range(cleanup.orphaned_paths) :
         Count(cleanup.deleted_paths, q) + Count(cleanup.skipped_paths, q)
           = Count(cleanup.orphaned_paths, q)
    /\ Range(cleanup.deleted_paths) \cup Range(cleanup.skipped_paths)
         \subseteq Range(cleanup.orphaned_paths)
    /\ \A i \in 1..Len(cleanup.errors) :
         /\ Len(cleanup.errors[i].paths) = 1
         /\ cleanup.errors[i].paths[1] \in Range(cleanup.skipped_paths)

\* a live call returned after deleting one file and failing on another
C39_Witness ==
  /\ cleanup.pc = "returned"
  /\ ~cleanup.dry_run
  /\ Len(cleanup.orphaned_paths) = 2
  /\ cleanup.files_deleted = 1
  /\ Len(cleanup.errors) = 1

\* the FAILED events that may still be retried
RetryEligible == {k \in DOMAIN outbox : /\ outbox[k].status = "failed"
                                        /\ outbox[k].retry_count
                                             < outbox[k].max_retries}

C38_RetryCountInRangeAndProcessedStamped ==
  \A k \in DOMAIN outbox :
    /\ 0 <= outbox[k].retry_count
    /\ outbox[k].retry_count <= outbox[k].max_retries
    /\ outbox[k].status = "processed" => outbox[k].processed_at # None

\* one event has used up its retries and another was processed after a
\* failure and a retry_failed_events call
C38_Witness ==
  /\ \E k \in DOMAIN outbox :
       /\ outbox[k].status = "failed"
       /\ outbox[k].retry_count = outbox[k].max_retries
  /\ \E k \in DOMAIN outbox :
       /\ outbox[k].status = "processed"
       /\ outbox[k].retry_count > 0
       /\ outbox[k].processed_at # None

\* C37: the OUTBOX_STUCK issue of an event stuck in PROCESSING with
\* retry_count < max_retries is a WARNING, auto-repairable, with action
\* RETRY_OUTBOX; it is CRITICAL, MANUAL_REQUIRED and not auto-repairable
\* only for an event whose retries are used up
C37_StuckRetryableIsAutoRepairable ==
  issue # NoIssue =>
    IF issue.event.retry_count < issue.event.max_retries
      THEN /\ issue.severity = "warning"
           /\ issue.suggested_action = "retry_outbox"
           /\ issue.auto_repairable
      ELSE /\ issue.severity = "critical"
           /\ issue.suggested_action = "manual_required"
           /\ ~issue.auto_repairable

\* C36: after any start() and stop(timeout) calls at most one worker loop
\* is inside a batch
C36_AtMostOneWorkerLoop ==
  Cardinality({t \in Threads : /\ thr[t].mode = "loop"
                               /\ thr[t].pc # "idle"}) <= 1

\* C31: a checkpoint saved on behalf of an execution is recorded under the
\* session and the execution id of that execution, whatever the other
\* thread does with the shared adapter
C31_CheckpointUnderCallersSession ==
  \A c \in DOMAIN stateDb.checkpoints :
    /\ stateDb.checkpoints[c].wtb_execution_id = stateDb.checkpoints[c].by
    /\ stateDb.checkpoints[c].internal_session_id
         = stateDb.checkpoints[c].by_session

\* C32: every node boundary with status completed has an
\* exit_checkpoint_id that is set and names a checkpoint of the store
C32_CompletedBoundaryHasExitCheckpoint ==
  \A b \in DOMAIN stateDb.boundaries :
    stateDb.boundaries[b].node_status = "completed" =>
      /\ stateDb.boundaries[b].exit_checkpoint_id # None
      /\ stateDb.boundaries[b].exit_checkpoint_id
           \in DOMAIN stateDb.checkpoints

\* the add calls that have returned
AddsDone == {p \in Threads \X (1..MaxAdds) : p[2] <= adders[p[1]].n}

\* C34: no concurrent add is lost: every event whose add has returned is
\* in the repository, retrievable by get_by_id, the repository holds
\* nothing else, and the primary keys are pairwise distinct
C34_NoAddLost ==
  /\ \A id \in AddsDone :
       /\ mock_get_by_id(mock, id).event_id = id
       /\ mock_get_by_id(mock, id).pk # None
       /\ id \in {mock.by_pk[k] : k \in DOMAIN mock.by_pk}
  /\ Len(mock.events) = Cardinality(AddsDone)
  /\ \A i, j \in 1..Len(mock.events) :
       i # j => /\ mock.events[i].pk # mock.events[j].pk
                /\ mock.events[i].event_id # mock.events[j].event_id

\* both threads have made all their add calls, their events alternating
C34_Witness ==
  /\ \A t \in Threads : adders[t].n = MaxAdds /\ adders[t].pc = "idle"
  /\ Len(mock.events) = 2 * MaxAdds
  /\ mock.events[1].event_id[1] # mock.events[2].event_id[1]

\* C33: after the same sequence of calls the in-memory and the relational
\* repository return the same thing: the same events with the same field
\* values in the same order, the same count, an error in the same cases
C33_RepositoriesAgree == result.sql = result.mock

============================================================================
